---- MODULE Spec2Model ----
(***************************************************************************)
(* Hazard-risk pipeline of the disaster early-warning platform:            *)
(* weather fetcher, feature synthesizers, classifier adapter and risk      *)
(* descriptor mapper (src/backend/*.py, src/app.py, src/frontend/          *)
(* translations.py, and the trainers that fix the column order).           *)
(*                                                                         *)
(* Numbers.  Python floats are modelled in fixed point: a physical         *)
(* quantity x is the integer 1000 * x (thousandths), so that round(x, 2)   *)
(* is a real operation (to the nearest multiple of 10).  Counts (month,    *)
(* consecutive_hot_days, class indices) are plain integers, as in the      *)
(* code.                                                                   *)
(***************************************************************************)
EXTENDS Integers, Sequences, FiniteSets, TLC

VARIABLES
    pc,            \* position of the run being modelled
    weather_data,  \* the weather record handed to the synthesizer / fetched
    now_month,     \* datetime.now().month, the wall clock
    disaster_type, \* the explicit hazard-type argument
    rng,           \* the values np.random returned to the synthesizer
    features,      \* the dict the synthesizer returned / predict_risk is given
    model,         \* the classifier artifact predict_risk is given
    scaler,        \* the scaler artifact predict_risk is given
    lang,          \* the display language predict_risk is given
    result,        \* what the call returned or raised
    impl,          \* which get_weather_data is called: app.py's or weather_api.py's
    provider,      \* what the weather provider answers to the request
    outbound,      \* requests.get calls made so far
    files,         \* the artifact files on disk: name -> content
    cache,         \* what st.cache_resource holds for load_model
    ui,            \* the widgets' values in this script run of main()
    calls,         \* the pipeline functions this script run has called, in order
    shown,         \* what this script run has rendered, in order
    runs,          \* script runs of main() started so far
    failed_fetches, \* script runs so far whose weather fetch failed
    tr_table       \* the translation table predict_risk is given

vars == <<pc, weather_data, now_month, disaster_type, rng, features,
          model, scaler, lang, result, impl, provider, outbound,
          files, cache, ui, calls, shown, runs, failed_fetches, tr_table>>

\* the state of the dashboard of app.py
mainVars == <<files, cache, ui, calls, shown, runs, failed_fetches>>

\* the fetcher's arguments and its environment
fetchVars == <<impl, provider, outbound>>

\* the arguments and the outcome of predict_risk
predictVars == <<model, scaler, lang, tr_table, result>>

\* Python's None
None == [py |-> "None"]

\* the mark of a call that raised nothing
NoException == "no exception"

\* no dashboard is running
NoDashboard ==
    /\ files = None /\ cache = None /\ ui = None
    /\ calls = <<>> /\ shown = <<>> /\ runs = 0 /\ failed_fetches = 0

(***************************************************************************)
(* Fixed-point helpers                                                     *)
(***************************************************************************)
\* n physical units, in thousandths
U(n) == n * 1000

\* a * b for two fixed-point numbers
Mul(a, b) == (a * b) \div 1000

\* Python's built-in max / min on two numbers
max(a, b) == IF a >= b THEN a ELSE b
min(a, b) == IF a <= b THEN a ELSE b

\* round(x, 2): to the nearest hundredth (multiple of 10 thousandths),
\* ties to even, as Python 3's round does
round2(x) ==
    LET q == x \div 10
        r == x % 10
    IN  IF r < 5 THEN q * 10
        ELSE IF r > 5 THEN (q + 1) * 10
        ELSE IF q % 2 = 0 THEN q * 10 ELSE (q + 1) * 10

(***************************************************************************)
(* Randomness.  Each np.random call is a choice from a small set that      *)
(* holds both ends of its range and a value that is not a whole hundredth. *)
(***************************************************************************)
\* how many standard deviations np.random.normal is let to stray
MaxSigma == 3

\* np.random.uniform(lo, hi)
Uniform(lo, hi) == {U(lo), (U(lo) + U(hi)) \div 2 + 4, U(hi)}

\* np.random.uniform(lo, hi) for the placeholder quantities
UniformEnds(lo, hi) == {U(lo), U(hi)}

\* np.random.normal(mu, sigma)
Normal(mu, sigma) ==
    {U(mu) - MaxSigma * U(sigma), U(mu) - U(sigma) - 3, U(mu),
     U(mu) + U(sigma) + 3, U(mu) + MaxSigma * U(sigma)}

\* np.random.randint(lo, hi): hi is excluded
RandInt(lo, hi) == lo .. (hi - 1)

\* the draws of one call of transform_to_features_flood, in call order; the
\* multiplier 8.3 takes a drizzle of 0.12 mm to 0.996 mm, just under 1
FloodDraws ==
    [mult : Uniform(8, 15) \cup {8300}, fallback : UniformEnds(20, 50),
     river_u : Uniform(-1, 2), soil_n : Normal(0, 5),
     elevation : UniformEnds(50, 300), drainage_density : UniformEnds(3, 7),
     land_use_index : UniformEnds(5, 8)]

\* the draws of one call of transform_to_features_cyclone
CycloneDraws ==
    [mult : Uniform(8, 15), fallback : UniformEnds(10, 80),
     distance_to_coast : UniformEnds(10, 200),
     system_movement_speed : UniformEnds(10, 25),
     sst_u : Uniform(-2, 2), ocean_heat_content : UniformEnds(30, 90),
     elevation : UniformEnds(5, 50)]

\* the draws of one call of transform_to_features_heatwave
HeatwaveDraws ==
    [temp_u : Uniform(0, 4), hot_days : RandInt(1, 5),
     soil_moisture : UniformEnds(10, 40), cloud_cover : UniformEnds(0, 30),
     urban_heat_island_idx : UniformEnds(5, 10)]

(***************************************************************************)
(* Feature synthesizers (src/backend/predictor.py).  w is weather_data,    *)
(* d the draws, m the month the wall clock shows.                          *)
(***************************************************************************)
\* an extrapolation that takes the hourly figure for the daily one
extrapolate_rainfall_not(w, d) == w.rainfall_1h

\* line 43 / 91: rainfall_1h * np.random.uniform(8, 15)
extrapolate_rainfall(w, d) == Mul(w.rainfall_1h, d.mult)

\* an estimate that falls back on humid air or on low pressure alone
flood_rainfall_estimate_either(w, d) ==
    LET rainfall_estimate == extrapolate_rainfall(w, d)
    IN  IF rainfall_estimate < U(1)
             /\ (w.humidity > U(85) \/ w.pressure < U(1005))
        THEN d.fallback
        ELSE rainfall_estimate

\* an estimate that falls back whenever the product is below 1
flood_rainfall_estimate_always_fallback(w, d) ==
    LET rainfall_estimate == extrapolate_rainfall(w, d)
    IN  IF rainfall_estimate < U(1) THEN d.fallback ELSE rainfall_estimate

\* an estimate whose fallback test looks at the product already rounded
flood_rainfall_estimate_rounded_test(w, d) ==
    LET rainfall_estimate == extrapolate_rainfall(w, d)
    IN  IF round2(rainfall_estimate) < U(1)
             /\ w.humidity > U(85) /\ w.pressure < U(1005)
        THEN d.fallback
        ELSE rainfall_estimate

\* lines 43-48: the 24h rainfall estimate of the flood synthesizer
flood_rainfall_estimate(w, d) ==
    LET rainfall_estimate == extrapolate_rainfall(w, d)
    IN  IF rainfall_estimate < U(1)
             /\ w.humidity > U(85) /\ w.pressure < U(1005)
        THEN d.fallback
        ELSE rainfall_estimate

\* a river that falls with the rain
flood_river_level_raw_falling(w, d) ==
    U(5) - (flood_rainfall_estimate(w, d) \div 100) + d.river_u

\* line 53: river level before the clamp
flood_river_level_raw(w, d) ==
    U(5) + (flood_rainfall_estimate(w, d) \div 100) + d.river_u

\* line 54: river_level = max(0.0, river_level)
clamp_river_level(x) == max(0, x)

\* line 59: soil moisture before the clamp
flood_soil_moisture_raw(w, d) ==
    Mul(w.humidity, 400) + (flood_rainfall_estimate(w, d) \div 5) + d.soil_n

\* a soil-moisture clamp that forgets the upper bound
clamp_soil_moisture_no_upper(x) == max(0, x)

\* line 60: soil_moisture = max(0.0, min(100.0, soil_moisture))
clamp_soil_moisture(x) == max(0, min(U(100), x))

\* lines 38-82
transform_to_features_flood(w, d, m) ==
    [rainfall |-> round2(flood_rainfall_estimate(w, d)),
     river_level |-> round2(clamp_river_level(flood_river_level_raw(w, d))),
     humidity |-> round2(w.humidity),
     month |-> m,
     wind_speed |-> round2(w.wind_speed),
     temperature |-> round2(w.temperature),
     soil_moisture |-> round2(clamp_soil_moisture(flood_soil_moisture_raw(w, d))),
     elevation |-> round2(d.elevation),
     drainage_density |-> round2(d.drainage_density),
     land_use_index |-> round2(d.land_use_index)]

\* lines 91-93: the rainfall estimate of the cyclone synthesizer
cyclone_rainfall(w, d) ==
    LET rainfall == extrapolate_rainfall(w, d)
    IN  IF rainfall < U(1) /\ w.pressure < U(1000)
        THEN d.fallback
        ELSE rainfall

\* lines 84-114
transform_to_features_cyclone(w, d, m) ==
    [wind_speed |-> round2(Mul(w.wind_speed, 1500)),
     pressure |-> round2(w.pressure),
     sea_surface_temp |-> round2(w.temperature + d.sst_u),
     rainfall |-> round2(cyclone_rainfall(w, d)),
     distance_to_coast |-> round2(d.distance_to_coast),
     system_movement_speed |-> round2(d.system_movement_speed),
     humidity |-> round2(w.humidity),
     ocean_heat_content |-> round2(d.ocean_heat_content),
     month |-> m,
     elevation |-> round2(d.elevation)]

\* line 119
heatwave_max_temp(w, d) == w.temperature + d.temp_u

\* a heat index that needs more than 27 degrees
heatwave_heat_index_above_27(w, d) ==
    LET max_temp == heatwave_max_temp(w, d)
    IN  IF max_temp > U(27) /\ w.humidity >= U(40)
        THEN max_temp + Mul(w.humidity - U(40), 100)
        ELSE max_temp

\* lines 122-124
heatwave_heat_index(w, d) ==
    LET max_temp == heatwave_max_temp(w, d)
    IN  IF max_temp >= U(27) /\ w.humidity >= U(40)
        THEN max_temp + Mul(w.humidity - U(40), 100)
        ELSE max_temp

\* a count of hot days decided on the rounded maximum
heatwave_consecutive_hot_days_of_rounded(w, d) ==
    IF round2(heatwave_max_temp(w, d)) > U(35) THEN d.hot_days ELSE 0

\* lines 126-128: drawn only when max_temp > 35
heatwave_consecutive_hot_days(w, d) ==
    IF heatwave_max_temp(w, d) > U(35) THEN d.hot_days ELSE 0

\* line 131: weather_data.get('cloud_cover', np.random.uniform(0, 30))
heatwave_cloud_cover(w, d) ==
    IF "cloud_cover" \in DOMAIN w THEN w.cloud_cover ELSE d.cloud_cover

\* line 134
historical_avg_temp == 30

\* line 135
heatwave_temp_anomaly(w, d) == heatwave_max_temp(w, d) - U(historical_avg_temp)

\* lines 116-148
transform_to_features_heatwave(w, d, m) ==
    [max_temperature |-> round2(heatwave_max_temp(w, d)),
     heat_index |-> round2(heatwave_heat_index(w, d)),
     humidity |-> round2(w.humidity),
     consecutive_hot_days |-> heatwave_consecutive_hot_days(w, d),
     wind_speed |-> round2(w.wind_speed),
     soil_moisture |-> round2(d.soil_moisture),
     month |-> m,
     cloud_cover |-> round2(heatwave_cloud_cover(w, d)),
     urban_heat_island_idx |-> round2(d.urban_heat_island_idx),
     temp_anomaly |-> round2(heatwave_temp_anomaly(w, d))]

(***************************************************************************)
(* Column orders                                                           *)
(***************************************************************************)
Range(seq) == {seq[i] : i \in DOMAIN seq}

\* a column-order table whose flood list names a field the synthesizer
\* does not produce
feature_names_misnamed ==
    [flood |-> <<"rainfall", "river_level", "humidity", "month", "wind_speed",
                 "temp", "soil_moisture", "elevation", "drainage_density",
                 "land_use_index">>,
     cyclone |-> <<"wind_speed", "pressure", "sea_surface_temp", "rainfall",
                   "distance_to_coast", "system_movement_speed", "humidity",
                   "ocean_heat_content", "month", "elevation">>,
     heatwave |-> <<"max_temperature", "heat_index", "humidity",
                    "consecutive_hot_days", "wind_speed", "soil_moisture",
                    "month", "cloud_cover", "urban_heat_island_idx",
                    "temp_anomaly">>]

\* a column-order table whose cyclone list has its last two columns swapped
feature_names_swapped ==
    [flood |-> <<"rainfall", "river_level", "humidity", "month", "wind_speed",
                 "temperature", "soil_moisture", "elevation",
                 "drainage_density", "land_use_index">>,
     cyclone |-> <<"wind_speed", "pressure", "sea_surface_temp", "rainfall",
                   "distance_to_coast", "system_movement_speed", "humidity",
                   "ocean_heat_content", "elevation", "month">>,
     heatwave |-> <<"max_temperature", "heat_index", "humidity",
                    "consecutive_hot_days", "wind_speed", "soil_moisture",
                    "month", "cloud_cover", "urban_heat_island_idx",
                    "temp_anomaly">>]

\* predictor.py lines 155-165: the column order predict_risk reorders to
feature_names ==
    [flood |-> <<"rainfall", "river_level", "humidity", "month", "wind_speed",
                 "temperature", "soil_moisture", "elevation",
                 "drainage_density", "land_use_index">>,
     cyclone |-> <<"wind_speed", "pressure", "sea_surface_temp", "rainfall",
                   "distance_to_coast", "system_movement_speed", "humidity",
                   "ocean_heat_content", "month", "elevation">>,
     heatwave |-> <<"max_temperature", "heat_index", "humidity",
                    "consecutive_hot_days", "wind_speed", "soil_moisture",
                    "month", "cloud_cover", "urban_heat_island_idx",
                    "temp_anomaly">>]

\* the synthesizer of each hazard type
Hazards == {"flood", "cyclone", "heatwave"}

DrawsOf(h) ==
    CASE h = "flood" -> FloodDraws
      [] h = "cyclone" -> CycloneDraws
      [] h = "heatwave" -> HeatwaveDraws

\* a dispatch that looks at the record: rain makes it a flood request
transform_to_features_by_content(h, w, d, m) ==
    IF w.rainfall_1h > 0 THEN transform_to_features_flood(w, CHOOSE x \in FloodDraws : TRUE, m)
    ELSE CASE h = "flood" -> transform_to_features_flood(w, d, m)
           [] h = "cyclone" -> transform_to_features_cyclone(w, d, m)
           [] h = "heatwave" -> transform_to_features_heatwave(w, d, m)

transform_to_features(h, w, d, m) ==
    CASE h = "flood" -> transform_to_features_flood(w, d, m)
      [] h = "cyclone" -> transform_to_features_cyclone(w, d, m)
      [] h = "heatwave" -> transform_to_features_heatwave(w, d, m)

(***************************************************************************)
(* Inputs of the synthesizers                                              *)
(***************************************************************************)
\* records as get_weather_data builds them (weather_api.py lines 26-35);
\* humidity in [0,100], wind_speed >= 0, rainfall_1h >= 0
ValidObservations ==
    [city : {"Mumbai"}, temperature : {U(24), U(34)},
     humidity : {0, U(60), U(97), U(100)}, pressure : {U(995), U(1015)},
     wind_speed : {0, 13320}, rainfall_1h : {0, 50, U(25)},
     description : {"clear sky"}, icon : {"01d"}]

\* records a caller extended with the optional cloud_cover key
CloudObservations ==
    [city : {"Delhi"}, temperature : {U(34)}, humidity : {U(60)},
     pressure : {U(1015)}, wind_speed : {U(36)}, rainfall_1h : {0},
     description : {"haze"}, icon : {"50d"}, cloud_cover : {U(75), 12346}]

\* records with a humidity no hygrometer reports
InvalidObservations ==
    [city : {"Chennai"}, temperature : {U(28)}, humidity : {-U(5), U(105)},
     pressure : {U(995)}, wind_speed : {U(60)}, rainfall_1h : {0, U(25)},
     description : {"rain"}, icon : {"10d"}]

\* records with a drizzle the provider reports to the thousandth of a mm
DrizzleObservations ==
    [city : {"Shillong"}, temperature : {U(24)}, humidity : {U(60), U(97)},
     pressure : {U(995)}, wind_speed : {U(36)}, rainfall_1h : {120, 128, 131},
     description : {"light intensity drizzle"}, icon : {"09d"}]

\* records of a hot, dry afternoon, around the thresholds of the heatwave
\* synthesizer (27 and 35 degrees, 40 % humidity)
HeatObservations ==
    [city : {"Nagpur"}, temperature : {U(23), U(31), U(33)},
     humidity : {U(39), U(40), 45050}, pressure : {U(1002)},
     wind_speed : {U(18)}, rainfall_1h : {0},
     description : {"clear sky"}, icon : {"01d"}]

Observations ==
    ValidObservations \cup CloudObservations \cup InvalidObservations
      \cup DrizzleObservations \cup HeatObservations

\* the contract of a WeatherObservation
IsValidObservation(w) ==
    /\ w.humidity >= 0 /\ w.humidity <= U(100)
    /\ w.wind_speed >= 0
    /\ w.rainfall_1h >= 0

\* datetime.now().month
Months == {1, 7, 12}

(***************************************************************************)
(* Synthesizer runs: one call of one synthesizer on one record             *)
(***************************************************************************)
SynthInit ==
    /\ pc = "input"
    /\ weather_data \in Observations
    /\ now_month \in Months
    /\ disaster_type = None
    /\ rng = None
    /\ features = None
    /\ model = None /\ scaler = None /\ lang = None /\ result = None
    /\ tr_table = None
    /\ impl = None /\ provider = None /\ outbound = 0
    /\ NoDashboard

Synthesize(h) ==
    /\ pc = "input"
    /\ \E d \in DrawsOf(h) :
         /\ rng' = d
         /\ features' = transform_to_features(h, weather_data, d, now_month)
    /\ disaster_type' = h
    /\ pc' = "synthesized"
    /\ UNCHANGED <<weather_data, now_month, predictVars, fetchVars, mainVars>>

RunFlood == Synthesize("flood")
RunCyclone == Synthesize("cyclone")
RunHeatwave == Synthesize("heatwave")

SynthNext == RunFlood \/ RunCyclone \/ RunHeatwave

SpecSynth == SynthInit /\ [][SynthNext]_vars

(***************************************************************************)
(* Properties of the synthesizers                                          *)
(***************************************************************************)
\* C1: for a valid observation (humidity in [0,100], wind_speed >= 0,
\* rainfall_1h >= 0) and any draws, every humidity and soil_moisture field of
\* the synthesized vector is in [0,100] and every river_level and elevation
\* field is >= 0, for each of the three synthesizers.
C1_FieldsInRange ==
    (pc = "synthesized" /\ IsValidObservation(weather_data)) =>
        /\ \A k \in DOMAIN features \cap {"humidity", "soil_moisture"} :
               features[k] >= 0 /\ features[k] <= U(100)
        /\ \A k \in DOMAIN features \cap {"river_level", "elevation"} :
               features[k] >= 0

\* C1's case: a valid observation whose unclamped soil moisture exceeds 100
C1_Witness ==
    /\ pc = "synthesized"
    /\ disaster_type = "flood"
    /\ IsValidObservation(weather_data)
    /\ flood_soil_moisture_raw(weather_data, rng) > U(100)
    /\ features.soil_moisture = U(100)

\* C2: for each hazard type the column order of predict_risk has exactly 10
\* distinct names and the synthesizer's key set is exactly that set of names,
\* so the reordering finds every column and drops no synthesized field.
C2_KeysMatchColumns ==
    /\ \A h \in Hazards :
           /\ Len(feature_names[h]) = 10
           /\ Cardinality(Range(feature_names[h])) = 10
    /\ pc = "synthesized" => DOMAIN features = Range(feature_names[disaster_type])

\* C2's case: a vector of each hazard type has been synthesized
C2_Witness ==
    /\ pc = "synthesized"
    /\ disaster_type = "heatwave"
    /\ "cloud_cover" \in DOMAIN weather_data
    /\ Cardinality(DOMAIN features) = 10

(***************************************************************************)
(* Training tables (the trainers): the order of the keys of the sample     *)
(* record is the column order of the DataFrame the scaler is fit on.       *)
(***************************************************************************)
\* flood_model_trainer.py lines 144-156
flood_sample_fields ==
    <<"rainfall", "river_level", "humidity", "month", "wind_speed",
      "temperature", "soil_moisture", "elevation", "drainage_density",
      "land_use_index", "risk_level">>

\* cyclone_trainer.py lines 105-117
cyclone_sample_fields ==
    <<"wind_speed", "pressure", "sea_surface_temp", "rainfall",
      "distance_to_coast", "system_movement_speed", "humidity",
      "ocean_heat_content", "month", "elevation", "risk_level">>

\* heatwave_trainer.py lines 102-114
heatwave_sample_fields ==
    <<"max_temperature", "heat_index", "humidity", "consecutive_hot_days",
      "wind_speed", "soil_moisture", "month", "cloud_cover",
      "urban_heat_island_idx", "temp_anomaly", "risk_level">>

sample_fields(h) ==
    CASE h = "flood" -> flood_sample_fields
      [] h = "cyclone" -> cyclone_sample_fields
      [] h = "heatwave" -> heatwave_sample_fields

\* X = df.drop('risk_level', axis=1)
training_columns(h) ==
    LET keep(f) == f # "risk_level"
    IN  SelectSeq(sample_fields(h), keep)

(***************************************************************************)
(* Artifacts.  The fitted scaler is an affine transform per column         *)
(* position; it remembers the columns it was fit on.  The classifier is    *)
(* opaque: here a decision stump on one scaled column, with its predict    *)
(* and its predict_proba each reading their own thresholds, so that an     *)
(* artifact need not make the two agree (scikit-learn's forests do).       *)
(***************************************************************************)
\* the statistics a StandardScaler may have learned, per column position
ScalerStats ==
    {[mean |-> [i \in 1..10 |-> 0], scale |-> [i \in 1..10 |-> U(1)]],
     [mean |-> [i \in 1..10 |-> i], scale |-> [i \in 1..10 |-> U(2)]]}

\* scaler = StandardScaler(); scaler.fit_transform(X_train)
Scalers(h) ==
    {[feature_names_in |-> training_columns(h), mean |-> st.mean,
      scale |-> st.scale] : st \in ScalerStats}

\* scaler.transform(row): z-score per column position
scaler_transform(sc, row) ==
    [i \in DOMAIN row |-> ((row[i] - sc.mean[i]) * 1000) \div sc.scale[i]]

\* thresholds a stump may carry
CutLists == {<<U(30), U(100), U(300)>>, <<3, 6, 9>>}

\* the classifier artifacts: the column they split on, the thresholds of
\* predict and of predict_proba, and the class labels (model.classes_)
Classifiers ==
    [col : {1, 4}, cuts : CutLists, proba_cuts : CutLists,
     classes : {<<0, 1, 2, 3>>}]

\* the leaf (1..4) a stump sends a scaled row to
leaf(x, cuts) == 1 + Cardinality({j \in DOMAIN cuts : x >= cuts[j]})

\* model.predict(features_scaled)[0]
model_predict(m, xs) == m.classes[leaf(xs[m.col], m.cuts)]

\* the dtype of the labels a classifier was fit on; the trainers' risk_level
\* column is int64, an artifact says so when it is not
label_dtype(m) == IF "dtype" \in DOMAIN m THEN m.dtype ELSE "int64"

\* predictor.py line 172, app.py line 207: int(label).  An int64 label is
\* that integer; a float64 label (held in thousandths) is cut towards zero
int(m, y) ==
    IF label_dtype(m) = "float64"
    THEN (IF y >= 0 THEN y \div 1000 ELSE -((-y) \div 1000))
    ELSE y

\* model.predict_proba(features_scaled)[0]: a 4-tuple in thousandths,
\* indexed from 0 as a numpy array is
model_predict_proba(m, xs) ==
    LET peak == leaf(xs[m.col], m.proba_cuts) - 1
    IN  [c \in 0..3 |-> IF c = peak THEN 700 ELSE 100]

(***************************************************************************)
(* Translation table (src/frontend/translations.py).  Strings are cut to   *)
(* ASCII: emoji are left out and Hindi text is written as "hi:" followed   *)
(* by its English gloss.  Of the 33 plain UI keys three stand for all.     *)
(***************************************************************************)
TRANSLATIONS ==
    [en |->
       [app_name |-> "Disaster Detection AI",
        hospitals |-> "Hospitals",
        footer_1 |-> "Built with love by TechTitans",
        risk_labels |->
          (0 :> [label |-> "Safe", title |-> "All Clear",
                 message |-> "No immediate threat detected. Conditions are normal."]
           @@ 1 :> [label |-> "Warning", title |-> "Stay Alert",
                    message |-> "Elevated risk conditions detected. Monitor closely."]
           @@ 2 :> [label |-> "High Risk", title |-> "Take Action Now",
                    message |-> "Significant risk likely. Take precautions immediately!"]
           @@ 3 :> [label |-> "Critical", title |-> "SEVERE ALERT",
                    message |-> "SEVERE HAZARD IMMINENT! Take extreme precautions or evacuate!"]),
        risk_actions |->
          (0 :> <<"Stay updated with weather news",
                  "Review emergency preparedness plan",
                  "Keep emergency kit accessible", "Enjoy your day safely">>
           @@ 1 :> <<"Prepare emergency supplies", "Charge all devices",
                     "Avoid risky areas", "Monitor local weather updates",
                     "Secure important documents">>
           @@ 2 :> <<"Secure valuables", "Prepare contingency plan",
                     "Be ready for power outages", "Stay in safe structures",
                     "Avoid unnecessary travel", "Keep emergency supplies ready">>
           @@ 3 :> <<"SEEK IMMEDIATE SAFETY", "Call emergency services: 112",
                     "Do NOT venture outside", "Stay in fortified structures",
                     "Signal for help if stranded", "Follow official instructions">>),
        prob_labels |-> <<"Safe", "Warning", "High Risk", "Critical">>],
     hi |->
       [app_name |-> "hi:Disaster Detection AI",
        hospitals |-> "hi:Hospitals",
        footer_1 |-> "Built with love by TechTitans",
        risk_labels |->
          (0 :> [label |-> "hi:Safe", title |-> "hi:All is well",
                 message |-> "hi:No danger. Conditions are normal."]
           @@ 1 :> [label |-> "hi:Warning", title |-> "hi:Stay alert",
                    message |-> "hi:Risk detected. Keep watching the situation."]
           @@ 2 :> [label |-> "hi:High Risk", title |-> "hi:Act now",
                    message |-> "hi:Heavy risk likely. Take care at once!"]
           @@ 3 :> [label |-> "hi:Critical", title |-> "hi:Severe alert",
                    message |-> "hi:Severe danger imminent! Take extreme care or move to safety!"]),
        risk_actions |->
          (0 :> <<"hi:Stay updated with weather news",
                  "hi:Review emergency preparedness plan",
                  "hi:Keep emergency kit ready", "hi:Enjoy your day safely">>
           @@ 1 :> <<"hi:Prepare emergency supplies", "hi:Charge all devices",
                     "hi:Avoid risky areas", "hi:Watch local weather updates",
                     "hi:Secure important documents">>
           @@ 2 :> <<"hi:Secure valuables", "hi:Keep contingency plan ready",
                     "hi:Be ready for power cuts", "hi:Stay in safe structures",
                     "hi:Avoid unnecessary travel", "hi:Keep emergency supplies ready">>
           @@ 3 :> <<"hi:Get to safety at once", "hi:Call emergency services: 112",
                     "hi:Do not go outside", "hi:Stay in strong structures",
                     "hi:Signal for help if stranded", "hi:Follow official instructions">>),
        prob_labels |-> <<"hi:Safe", "hi:Warning", "hi:High Risk", "hi:Critical">>]]

\* dict.get(k, default)
Get(dict, k, default) == IF k \in DOMAIN dict THEN dict[k] ELSE default

\* translations.py lines 106-108
t(key, lg) ==
    Get(Get(TRANSLATIONS, lg, TRANSLATIONS["en"]), key,
        Get(TRANSLATIONS["en"], key, key))

(***************************************************************************)
(* Risk classifier adapter and descriptor mapper: predict_risk             *)
(* (src/backend/predictor.py lines 151-201)                                *)
(***************************************************************************)
\* a colour table whose last entry was left empty
color_map_blank == (0 :> "#10b981" @@ 1 :> "#f59e0b" @@ 2 :> "#f97316" @@ 3 :> "")

\* line 181
color_map == (0 :> "#10b981" @@ 1 :> "#f59e0b" @@ 2 :> "#f97316" @@ 3 :> "#ef4444")

\* lines 182-187
gradient_map ==
    (0 :> "linear-gradient(135deg, #0f766e, #10b981)"
     @@ 1 :> "linear-gradient(135deg, #d97706, #f59e0b)"
     @@ 2 :> "linear-gradient(135deg, #ea580c, #f97316)"
     @@ 3 :> "linear-gradient(135deg, #dc2626, #ef4444)")

\* line 188 (the emoji by name)
emoji_map == (0 :> "check mark" @@ 1 :> "warning" @@ 2 :> "rotating light" @@ 3 :> "SOS")

\* a call that returned v / a call that raised the exception e
Returned(v) == [raised |-> NoException, value |-> v]
Raised(e) == [raised |-> e, value |-> None]

\* line 168: pd.DataFrame([features])[cols], as the row of values in cols' order
reorder(feats, cols) == [i \in DOMAIN cols |-> feats[cols[i]]]

\* a language lookup that falls back to the other language
select_language_hi(translations, lg) == Get(translations, lg, translations["hi"])

\* line 176: translations.get(lang, translations['en'])
select_language(translations, lg) == Get(translations, lg, translations["en"])

\* line 193: dict(zip(prob_labels, [float(p) for p in probabilities]))
zip_probs(prob_labels, probabilities) ==
    [l \in Range(prob_labels) |->
        probabilities[(CHOOSE i \in DOMAIN prob_labels : prob_labels[i] = l) - 1]]

\* a bundle that always carries the action list of class 0
risk_bundle_first_actions(risk_level, probabilities, tr) ==
    [risk_level |-> risk_level,
     probability |-> probabilities[risk_level],
     all_probs |-> zip_probs(tr.prob_labels, probabilities),
     label |-> tr.risk_labels[risk_level].label,
     title |-> tr.risk_labels[risk_level].title,
     message |-> tr.risk_labels[risk_level].message,
     actions |-> tr.risk_actions[0],
     color |-> color_map[risk_level],
     gradient |-> gradient_map[risk_level],
     emoji |-> emoji_map[risk_level]]

\* lines 175-201: the bundle of a class
risk_bundle(risk_level, probabilities, tr) ==
    [risk_level |-> risk_level,
     probability |-> probabilities[risk_level],
     all_probs |-> zip_probs(tr.prob_labels, probabilities),
     label |-> tr.risk_labels[risk_level].label,
     title |-> tr.risk_labels[risk_level].title,
     message |-> tr.risk_labels[risk_level].message,
     actions |-> tr.risk_actions[risk_level],
     color |-> color_map[risk_level],
     gradient |-> gradient_map[risk_level],
     emoji |-> emoji_map[risk_level]]

\* lines 151-201
predict_risk(feats, mdl, sc, dtype, translations, lg) ==
    IF dtype \notin DOMAIN feature_names THEN Raised("KeyError")
    ELSE LET cols == feature_names[dtype] IN
    IF ~(Range(cols) \subseteq DOMAIN feats) THEN Raised("KeyError")
    ELSE LET features_scaled == scaler_transform(sc, reorder(feats, cols))
             risk_level == int(mdl, model_predict(mdl, features_scaled))
             probabilities == model_predict_proba(mdl, features_scaled)
             tr == select_language(translations, lg)
         IN  IF risk_level \notin DOMAIN tr.risk_labels THEN Raised("KeyError")
             ELSE Returned(risk_bundle(risk_level, probabilities, tr))

\* a predict_risk that pops the columns it reads out of the mapping
args_after_pop(feats, mdl, sc, translations) ==
    [features |-> [k \in {} |-> 0], model |-> mdl, scaler |-> sc,
     translations |-> translations]

\* lines 151-201 assign to no argument and call no mutating method on one:
\* pd.DataFrame([features])[cols] copies, scaler.transform, model.predict,
\* model.predict_proba and translations.get only read
args_after_predict_risk(feats, mdl, sc, translations) ==
    [features |-> feats, model |-> mdl, scaler |-> sc,
     translations |-> translations]

\* a predict_risk that scales before it selects the columns
artifact_calls_scaler_first(feats, dtype) ==
    IF dtype \notin DOMAIN feature_names THEN <<>>
    ELSE <<"scaler.transform">>

\* lines 167-173: the calls predict_risk makes on the artifacts, in order;
\* none when line 167 or line 168 raises
artifact_calls(feats, dtype) ==
    IF dtype \notin DOMAIN feature_names THEN <<>>
    ELSE IF ~(Range(feature_names[dtype]) \subseteq DOMAIN feats) THEN <<>>
    ELSE <<"scaler.transform", "model.predict", "model.predict_proba">>

(***************************************************************************)
(* Calls of predict_risk                                                   *)
(***************************************************************************)
\* the scenarios of the design document, and a hot dry day
ScenarioObservations ==
    {[city |-> "Mumbai", temperature |-> U(28), humidity |-> U(60),
      pressure |-> U(1015), wind_speed |-> U(36), rainfall_1h |-> 0,
      description |-> "clear sky", icon |-> "01d"],
     [city |-> "Mumbai", temperature |-> U(24), humidity |-> U(97),
      pressure |-> U(995), wind_speed |-> U(60), rainfall_1h |-> U(25),
      description |-> "heavy intensity rain", icon |-> "10d"],
     [city |-> "Delhi", temperature |-> U(42), humidity |-> U(30),
      pressure |-> U(1002), wind_speed |-> 13320, rainfall_1h |-> 0,
      description |-> "haze", icon |-> "50d"]}

\* draws in which every np.random call returns the low end of its range, or
\* every call the high end
CornerDraws(h) ==
    LET D == DrawsOf(h)
        fields == DOMAIN (CHOOSE d \in D : TRUE)
        vals(f) == {d[f] : d \in D}
        lo(S) == CHOOSE x \in S : \A y \in S : x <= y
        hi(S) == CHOOSE x \in S : \A y \in S : x >= y
    IN  {[f \in fields |-> lo(vals(f))], [f \in fields |-> hi(vals(f))]}

\* vectors the synthesizer of h hands to predict_risk
FeatureVectors(h) ==
    {transform_to_features(h, w, d, m) :
        w \in ScenarioObservations, d \in CornerDraws(h), m \in Months}

\* the same, as a table by hazard type
FeatureVectorsOf == [h \in Hazards |-> FeatureVectors(h)]

\* the scalers a trainer may have saved, by hazard type
ScalersOf == [h \in Hazards |-> Scalers(h)]

\* display languages a caller may ask for; only en and hi are in the table
Langs == {"en", "hi", "fr", ""}

PredictInit ==
    /\ pc = "call"
    /\ disaster_type \in Hazards
    /\ features \in FeatureVectorsOf[disaster_type]
    /\ model \in Classifiers
    /\ scaler \in ScalersOf[disaster_type]
    /\ lang \in Langs
    /\ tr_table = TRANSLATIONS
    /\ result = None
    /\ weather_data = None /\ now_month = None /\ rng = None
    /\ impl = None /\ provider = None /\ outbound = 0
    /\ NoDashboard

PredictRisk ==
    /\ pc = "call"
    /\ result' = predict_risk(features, model, scaler, disaster_type,
                              tr_table, lang)
    /\ calls' = artifact_calls(features, disaster_type)
    /\ LET after == args_after_predict_risk(features, model, scaler, tr_table)
       IN  /\ features' = after.features
           /\ model' = after.model
           /\ scaler' = after.scaler
           /\ tr_table' = after.translations
    /\ pc' = "returned"
    /\ UNCHANGED <<weather_data, now_month, disaster_type, rng, lang,
                   fetchVars, files, cache, ui, shown, runs, failed_fetches>>

\* keys a caller may ask t() for: those of the table and one that is not
Keys == DOMAIN TRANSLATIONS["en"] \cup {"no_such_key"}

\* one call t(key, lang)
Translate ==
    /\ pc = "call"
    /\ \E k \in Keys : result' = [raised |-> NoException, value |-> t(k, lang), key |-> k]
    /\ pc' = "translated"
    /\ UNCHANGED <<weather_data, now_month, disaster_type, rng, features,
                   model, scaler, lang, tr_table, fetchVars, mainVars>>

PredictNext == PredictRisk \/ Translate

SpecPredict == PredictInit /\ [][PredictNext]_vars

(***************************************************************************)
(* Properties of predict_risk and t                                        *)
(***************************************************************************)
\* C3: for each hazard type the column order predict_risk reorders to is,
\* position by position, the column order of the training table the scaler
\* and the classifier of that hazard were fit on (the sample record's keys
\* without risk_level).
C3_ColumnOrderIsTrainingOrder ==
    pc \in {"call", "returned", "translated"} =>
        /\ Len(feature_names[disaster_type]) = Len(scaler.feature_names_in)
        /\ \A i \in DOMAIN scaler.feature_names_in :
               feature_names[disaster_type][i] = scaler.feature_names_in[i]

\* C3's case: predict_risk has reordered and scaled a cyclone vector
C3_Witness ==
    /\ pc = "returned"
    /\ disaster_type = "cyclone"
    /\ result.raised = NoException
    /\ scaler.feature_names_in[9] = "month"

\* the probability tuple of a returned bundle, indexed by class
ReturnedProbs ==
    LET tr == select_language(TRANSLATIONS, lang)
    IN  [c \in 0..3 |-> result.value.all_probs[tr.prob_labels[c + 1]]]

\* C4: the risk_level predict_risk returns is the index of the largest entry
\* of the probability tuple it returns, and the returned probability is that
\* largest entry, whatever the classifier artifact.
C4_RiskLevelIsArgMax ==
    (pc = "returned" /\ result.raised = NoException) =>
        /\ \A c \in 0..3 : ReturnedProbs[c] <= ReturnedProbs[result.value.risk_level]
        /\ \A c \in 0..3 : ReturnedProbs[c] <= result.value.probability

\* C5: for every (language, class) in {en, hi} x {0,1,2,3} the bundle has a
\* non-empty action list, a non-empty color string, a label, a title and a
\* message, and its color, gradient and emoji are those of every other call,
\* in any language and for any hazard type, that returns the same class.
C5_BundleComplete ==
    (pc = "returned" /\ result.raised = NoException /\ lang \in {"en", "hi"}) =>
        LET b == result.value IN
        /\ Len(b.actions) > 0
        /\ b.color # ""
        /\ {"label", "title", "message"} \subseteq DOMAIN b
        /\ b.label # "" /\ b.title # "" /\ b.message # ""
        /\ \A h2 \in Hazards, l2 \in Langs :
             \A f2 \in FeatureVectorsOf[h2], sc2 \in ScalersOf[h2] :
               LET r2 == predict_risk(f2, model, sc2, h2, TRANSLATIONS, l2)
               IN  (r2.raised = NoException /\ r2.value.risk_level = b.risk_level) =>
                     /\ r2.value.color = b.color
                     /\ r2.value.gradient = b.gradient
                     /\ r2.value.emoji = b.emoji

\* C5's case: the gravest class in Hindi
C5_Witness ==
    /\ pc = "returned"
    /\ result.raised = NoException
    /\ lang = "hi"
    /\ result.value.risk_level = 3
    /\ Len(result.value.actions) = 6

\* C6: for a language that is not a key of the translation table,
\* predict_risk and t return exactly what they return for 'en' on the same
\* other arguments, and raise nothing the 'en' call does not raise.
C6_UnknownLanguageIsEnglish ==
    lang \notin DOMAIN TRANSLATIONS =>
        /\ pc = "returned" =>
             result = predict_risk(features, model, scaler, disaster_type,
                                   TRANSLATIONS, "en")
        /\ pc = "returned" => result.raised = NoException
        /\ pc = "translated" =>
             result.raised = NoException /\ result.value = t(result.key, "en")

\* C6's case: a bundle asked for in French came back in English
C6_Witness ==
    /\ pc = "returned"
    /\ lang = "fr"
    /\ result.raised = NoException
    /\ result.value.label = "Warning"

(***************************************************************************)
(* Weather fetcher: get_weather_data of src/backend/weather_api.py         *)
(* (lines 9-38) and of src/app.py (lines 80-119)                           *)
(***************************************************************************)
\* a dict without the key k
Drop(dict, k) == [x \in DOMAIN dict \ {k} |-> dict[x]]

\* a dict with key k set to v
With(dict, k, v) == [x \in DOMAIN dict \cup {k} |-> IF x = k THEN v ELSE dict[x]]

\* payloads that hold every field the fetcher reads
FullPayloads ==
    {[name |-> "Mumbai",
      main |-> [temp |-> U(24), humidity |-> U(97), pressure |-> U(995)],
      wind |-> [speed |-> 16670],
      rain |-> [1h |-> U(25)],
      weather |-> <<[description |-> "heavy intensity rain", icon |-> "10d"]>>],
     [name |-> "Delhi",
      main |-> [temp |-> U(28), humidity |-> U(60), pressure |-> U(1015)],
      wind |-> [speed |-> U(10)],
      rain |-> [3h |-> 1500],
      weather |-> <<[description |-> "clear sky", icon |-> "01d"],
                    [description |-> "haze", icon |-> "50d"]>>]}

\* payloads that lack one thing the fetcher reads, or the optional rain
BrokenPayloads(p) ==
    {Drop(p, "name"), Drop(p, "main"), Drop(p, "wind"), Drop(p, "weather"),
     With(p, "main", Drop(p.main, "temp")),
     With(p, "main", Drop(p.main, "humidity")),
     With(p, "main", Drop(p.main, "pressure")),
     With(p, "wind", Drop(p.wind, "speed")),
     With(p, "weather", <<>>),
     With(p, "weather", <<Drop(p.weather[1], "description")>>),
     With(p, "weather", <<Drop(p.weather[1], "icon")>>)}

\* the body the provider sends with an error status
ErrorPayload == [cod |-> "404", message |-> "city not found"]

Payloads ==
    FullPayloads \cup {Drop(p, "rain") : p \in FullPayloads}
      \cup UNION {BrokenPayloads(p) : p \in FullPayloads} \cup {ErrorPayload}

\* HTTP statuses the provider, or a proxy on the way, answers with
StatusCodes == {200, 203, 401, 404, 500}

\* what one requests.get(..., timeout=5) ends in: an exception of requests,
\* or a response with a status and a body (JSON or not)
ProviderOutcomes ==
    {[kind |-> "Timeout"], [kind |-> "ConnectionError"]}
      \cup [kind : {"response"}, status_code : StatusCodes,
            decodes : {TRUE}, json : Payloads]
      \cup [kind : {"response"}, status_code : StatusCodes,
            decodes : {FALSE}, json : {[html |-> "<h1>Bad Gateway</h1>"]}]

\* the exceptions of requests.exceptions.RequestException's family
RequestExceptions == {"Timeout", "ConnectionError", "HTTPError", "JSONDecodeError"}

\* response.raise_for_status(): raises for 4xx and 5xx
raise_for_status(response) ==
    IF response.status_code >= 400 /\ response.status_code < 600
    THEN Raised("HTTPError") ELSE Returned(None)

\* response.json()
response_json(response) ==
    IF ~response.decodes THEN Raised("JSONDecodeError")
    ELSE Returned(response.json)

\* a fetcher that takes the 3h total when there is no 1h entry
rainfall_1h_or_3h_of(data) ==
    IF "rain" \in DOMAIN data
    THEN Get(data.rain, "1h", Get(data.rain, "3h", 0)) ELSE 0

\* data.get('rain', {}).get('1h', 0)
rainfall_1h_of(data) ==
    IF "rain" \in DOMAIN data THEN Get(data.rain, "1h", 0) ELSE 0

\* the dict display of the return statement, evaluated key by key in order:
\* the first subscript that fails decides the exception
build_record(data) ==
    IF "name" \notin DOMAIN data THEN Raised("KeyError")
    ELSE IF "main" \notin DOMAIN data THEN Raised("KeyError")
    ELSE IF "temp" \notin DOMAIN data.main THEN Raised("KeyError")
    ELSE IF "humidity" \notin DOMAIN data.main THEN Raised("KeyError")
    ELSE IF "pressure" \notin DOMAIN data.main THEN Raised("KeyError")
    ELSE IF "wind" \notin DOMAIN data THEN Raised("KeyError")
    ELSE IF "speed" \notin DOMAIN data.wind THEN Raised("KeyError")
    ELSE IF "weather" \notin DOMAIN data THEN Raised("KeyError")
    ELSE IF Len(data.weather) = 0 THEN Raised("IndexError")
    ELSE IF "description" \notin DOMAIN data.weather[1] THEN Raised("KeyError")
    ELSE IF "icon" \notin DOMAIN data.weather[1] THEN Raised("KeyError")
    ELSE Returned([city |-> data.name,
                   temperature |-> data.main.temp,
                   humidity |-> data.main.humidity,
                   pressure |-> data.main.pressure,
                   wind_speed |-> Mul(data.wind.speed, 3600),
                   rainfall_1h |-> rainfall_1h_of(data),
                   description |-> data.weather[1].description,
                   icon |-> data.weather[1].icon])

\* weather_api.py line 37: except Exception
catch_all(outcome) ==
    IF outcome.raised # NoException THEN Returned(None) ELSE outcome

\* app.py lines 116-119: except RequestException / except KeyError
catch_request_and_key_errors(outcome) ==
    IF outcome.raised \in RequestExceptions \cup {"KeyError"}
    THEN Returned(None) ELSE outcome

\* weather_api.py lines 18-35: the body of the try
weather_api_try(out) ==
    IF out.kind # "response" THEN Raised(out.kind)
    ELSE IF out.status_code # 200 THEN Returned(None)
    ELSE LET data == response_json(out)
         IN  IF data.raised # NoException THEN data ELSE build_record(data.value)

\* app.py lines 101-114: the body of the try
app_try(out) ==
    IF out.kind # "response" THEN Raised(out.kind)
    ELSE IF raise_for_status(out).raised # NoException THEN raise_for_status(out)
    ELSE LET data == response_json(out)
         IN  IF data.raised # NoException THEN data ELSE build_record(data.value)

\* get_weather_data(city, api_key), by implementation
get_weather_data(im, out) ==
    IF im = "weather_api" THEN catch_all(weather_api_try(out))
    ELSE catch_request_and_key_errors(app_try(out))

Impls == {"app", "weather_api"}

\* a fetcher that tries once more when requests.get raised
requests_made_with_retry(im, out) == IF out.kind # "response" THEN 2 ELSE 1

\* weather_api.py line 19, app.py line 101: the one requests.get of the
\* body; it is in no loop and no handler calls it again
requests_made(im, out) == IF im \in Impls THEN 1 ELSE 0

FetchInit ==
    /\ pc = "call"
    /\ impl \in Impls
    /\ provider \in ProviderOutcomes
    /\ outbound = 0
    /\ result = None
    /\ weather_data = None /\ now_month = None /\ disaster_type = None
    /\ rng = None /\ features = None
    /\ model = None /\ scaler = None /\ lang = None /\ tr_table = None
    /\ NoDashboard

\* one call of get_weather_data: one requests.get, then the parsing
GetWeatherData ==
    /\ pc = "call"
    /\ outbound' = outbound + requests_made(impl, provider)
    /\ result' = get_weather_data(impl, provider)
    /\ pc' = IF result'.raised = NoException THEN "returned" ELSE "raised"
    /\ UNCHANGED <<weather_data, now_month, disaster_type, rng, features,
                   model, scaler, lang, tr_table, impl, provider, mainVars>>

FetchNext == GetWeatherData

SpecFetch == FetchInit /\ [][FetchNext]_vars

\* C13: every invocation of get_weather_data, of either implementation,
\* makes exactly one outbound request, whether it succeeds or fails: none
\* before the call, one after it, however the request ended.
C13_OneRequestPerInvocation ==
    /\ pc = "call" => outbound = 0
    /\ pc \in {"returned", "raised"} => outbound = 1

\* C13's case: the request timed out and the invocation is over
C13_Witness ==
    /\ pc = "returned"
    /\ provider.kind = "Timeout"
    /\ result = Returned(None)
    /\ outbound = 1

\* C14: on a successful response the returned record has wind_speed equal to
\* the payload's wind.speed times 3.6, rainfall_1h equal to rain.1h when the
\* payload has it and 0 when the rain object or its 1h entry is absent, and
\* temperature, humidity, pressure, city and description as in the payload.
C14_RecordIsThePayloadConverted ==
    (pc = "returned" /\ result.value # None) =>
        LET data == provider.json
            record == result.value
        IN  /\ record.wind_speed * 10 = data.wind.speed * 36
            /\ record.rainfall_1h =
                 (IF "rain" \notin DOMAIN data THEN 0
                  ELSE IF "1h" \notin DOMAIN data.rain THEN 0
                  ELSE data.rain["1h"])
            /\ record.temperature = data.main.temp
            /\ record.humidity = data.main.humidity
            /\ record.pressure = data.main.pressure
            /\ record.city = data.name
            /\ record.description = data.weather[1].description

\* C14's case: a record built from a payload whose rain object has no 1h
\* entry, wind 10 m/s
C14_Witness ==
    /\ pc = "returned"
    /\ result.value # None
    /\ "rain" \in DOMAIN provider.json
    /\ "1h" \notin DOMAIN provider.json.rain
    /\ result.value.rainfall_1h = 0
    /\ provider.json.wind.speed = U(10)
    /\ result.value.wind_speed = U(36)

\* the failures the fetcher is to answer with None
IsFetchFailure(out) ==
    \/ out.kind # "response"
    \/ out.status_code # 200
    \/ ~out.decodes
    \/ build_record(out.json).raised # NoException

\* C7: get_weather_data lets no exception escape: on a network error or
\* timeout, on a non-success HTTP status and on a payload that lacks an
\* expected field (name, main.temp, main.humidity, main.pressure, wind.speed,
\* a non-empty weather list with description) it returns None, in both
\* implementations.
C7_FailureIsNone ==
    pc \in {"returned", "raised"} =>
        /\ result.raised = NoException
        /\ IsFetchFailure(provider) => result.value = None

(***************************************************************************)
(* The dashboard of src/app.py: load_model, transform_to_features,         *)
(* predict_flood_risk, the emergency-resource lookup and main().           *)
(* City names are sequences of characters, so that lower() and the         *)
(* substring test of the lookup are the operations the code performs.      *)
(***************************************************************************)
\* app.py lines 69-70: the two files load_model reads
AppModelFile == "models/flood_model.pkl"
AppScalerFile == "models/scaler.pkl"

\* app.py lines 125-178: transform_to_features, the flood formulas
app_transform_to_features(w, d, m) ==
    [rainfall |-> round2(flood_rainfall_estimate(w, d)),
     river_level |-> round2(clamp_river_level(flood_river_level_raw(w, d))),
     humidity |-> round2(w.humidity),
     month |-> m,
     wind_speed |-> round2(w.wind_speed),
     temperature |-> round2(w.temperature),
     soil_moisture |-> round2(clamp_soil_moisture(flood_soil_moisture_raw(w, d))),
     elevation |-> round2(d.elevation),
     drainage_density |-> round2(d.drainage_density),
     land_use_index |-> round2(d.land_use_index)]

\* app.py lines 198-200
app_feature_names ==
    <<"rainfall", "river_level", "humidity", "month", "wind_speed",
      "temperature", "soil_moisture", "elevation", "drainage_density",
      "land_use_index">>

\* app.py lines 211-268 (emoji by name, or left out of the action texts)
risk_info ==
    (0 :> [label |-> "Safe", color |-> "#28a745", emoji |-> "check mark",
           title |-> "Low Flood Risk",
           message |-> "Weather conditions are within normal range. No immediate flood threat.",
           actions |-> <<"Stay informed about weather updates",
                         "Review your emergency preparedness plan",
                         "Keep emergency kit accessible">>]
     @@ 1 :> [label |-> "Warning", color |-> "#ffc107", emoji |-> "warning",
              title |-> "Moderate Flood Risk",
              message |-> "Rainfall is elevated. Monitor conditions closely and prepare for possible flooding.",
              actions |-> <<"Prepare emergency supplies (water, food, first aid)",
                            "Charge electronic devices",
                            "Avoid low-lying areas",
                            "Keep important documents in waterproof container",
                            "Monitor local news and weather updates">>]
     @@ 2 :> [label |-> "High Risk", color |-> "#fd7e14", emoji |-> "rotating light",
              title |-> "High Flood Risk",
              message |-> "Significant flooding likely. Take immediate precautionary measures!",
              actions |-> <<"Move valuables to higher floors immediately",
                            "Prepare to evacuate if instructed",
                            "Turn off gas and electricity if flooding begins",
                            "Move to higher ground NOW",
                            "Do NOT drive through flooded areas",
                            "Keep emergency supplies ready">>]
     @@ 3 :> [label |-> "Critical", color |-> "#dc3545", emoji |-> "SOS",
              title |-> "CRITICAL FLOOD ALERT",
              message |-> "SEVERE FLOODING IMMINENT! Evacuate flood-prone areas IMMEDIATELY!",
              actions |-> <<"EVACUATE TO HIGHER GROUND NOW",
                            "Call emergency services: 112",
                            "Do NOT walk or drive through flood water",
                            "Move to upper floors or rooftop if trapped",
                            "Signal for help if stranded",
                            "Follow official evacuation routes only">>])

\* app.py lines 184-287
predict_flood_risk(feats, mdl, sc) ==
    IF ~(Range(app_feature_names) \subseteq DOMAIN feats) THEN Raised("KeyError")
    ELSE LET features_scaled == scaler_transform(sc, reorder(feats, app_feature_names))
             risk_level == int(mdl, model_predict(mdl, features_scaled))
             probabilities == model_predict_proba(mdl, features_scaled)
         IN  IF risk_level \notin DOMAIN risk_info THEN Raised("KeyError")
             ELSE LET info == risk_info[risk_level] IN
                  Returned([risk_level |-> risk_level,
                            label |-> info.label,
                            color |-> info.color,
                            emoji |-> info.emoji,
                            title |-> info.title,
                            message |-> info.message,
                            actions |-> info.actions,
                            probability |-> probabilities[risk_level],
                            all_probabilities |->
                                [safe |-> probabilities[0],
                                 warning |-> probabilities[1],
                                 high_risk |-> probabilities[2],
                                 critical |-> probabilities[3]]])

\* str.lower() on the letters city names are written with
UpperCase == <<"A", "B", "C", "D", "E", "F", "G", "H", "I", "J", "K", "L", "M", "N", "O", "P", "Q", "R", "S", "T", "U", "V", "W", "X", "Y", "Z">>
LowerCase == <<"a", "b", "c", "d", "e", "f", "g", "h", "i", "j", "k", "l", "m", "n", "o", "p", "q", "r", "s", "t", "u", "v", "w", "x", "y", "z">>
lower_char(c) ==
    IF \E i \in DOMAIN UpperCase : UpperCase[i] = c
    THEN LowerCase[CHOOSE i \in DOMAIN UpperCase : UpperCase[i] = c]
    ELSE c
lower(str) == [i \in DOMAIN str |-> lower_char(str[i])]

\* key in city_lower: the substring test of Python's in
is_substring(key, str) ==
    \E i \in 1..(Len(str) - Len(key) + 1) : SubSeq(str, i, i + Len(key) - 1) = key

\* app.py lines 293-352, in the order of the dict
EMERGENCY_RESOURCES ==
    <<[key |-> <<"m", "u", "m", "b", "a", "i">>,
       hospitals |-> <<"KEM Hospital - 022-24107000",
                       "Lilavati Hospital - 022-26567891",
                       "Hinduja Hospital - 022-24447000">>,
       shelters |-> <<"BMC Schools (Multiple Locations)",
                      "Community Halls - Contact Ward Office",
                      "Sports Complexes">>],
      [key |-> <<"d", "e", "l", "h", "i">>,
       hospitals |-> <<"AIIMS Delhi - 011-26588500",
                       "Safdarjung Hospital - 011-26165060",
                       "RML Hospital - 011-23365525">>,
       shelters |-> <<"Government Schools",
                      "Community Centers - Karol Bagh",
                      "Sports Complex - Dwarka">>],
      [key |-> <<"c", "h", "e", "n", "n", "a", "i">>,
       hospitals |-> <<"Apollo Hospital - 044-28296000",
                       "Stanley Medical College - 044-25281351",
                       "Rajiv Gandhi Govt Hospital - 044-25912121">>,
       shelters |-> <<"Corporation Schools", "Kalyana Mandapams",
                      "Community Halls">>],
      [key |-> <<"k", "o", "l", "k", "a", "t", "a">>,
       hospitals |-> <<"SSKM Hospital - 033-22041000",
                       "Medical College - 033-22413077",
                       "Apollo Gleneagles - 033-23203040">>,
       shelters |-> <<"Municipality Schools", "Relief Centers">>],
      [key |-> <<"b", "a", "n", "g", "a", "l", "o", "r", "e">>,
       hospitals |-> <<"Victoria Hospital - 080-26700301",
                       "St Johns Hospital - 080-25532979",
                       "Manipal Hospital - 080-25021000">>,
       shelters |-> <<"Government Schools", "Community Halls">>]>>

\* a lookup that keeps the last key found instead of breaking at the first
find_resources_last(city) ==
    LET city_lower == lower(city)
        hits == {i \in DOMAIN EMERGENCY_RESOURCES :
                    is_substring(EMERGENCY_RESOURCES[i].key, city_lower)}
    IN  IF hits = {} THEN None
        ELSE EMERGENCY_RESOURCES[CHOOSE i \in hits : \A j \in hits : i >= j]

\* app.py lines 500-506: the first key, in table order, found in the
\* lower-cased city name; None when there is none
find_resources(city) ==
    LET city_lower == lower(city)
        hits == {i \in DOMAIN EMERGENCY_RESOURCES :
                    is_substring(EMERGENCY_RESOURCES[i].key, city_lower)}
    IN  IF hits = {} THEN None
        ELSE EMERGENCY_RESOURCES[CHOOSE i \in hits : \A j \in hits : i <= j]

\* app.py lines 484-485: the priority of the i-th action
action_priority(risk_level, i) ==
    IF risk_level >= 3 /\ i <= 2 THEN "URGENT"
    ELSE IF risk_level >= 2 THEN "IMPORTANT"
    ELSE "ADVISED"

\* app.py line 496: the emergency resources are looked up for these classes
needs_resources(risk_level) == risk_level >= 2

\* app.py lines 449-559: what a prediction is rendered as
render_prediction(city, weather, feats, prediction) ==
    <<[widget |-> "alert", color |-> prediction.color, emoji |-> prediction.emoji,
       title |-> prediction.title, city |-> weather.city,
       message |-> prediction.message, confidence |-> prediction.probability],
      [widget |-> "metrics", risk_level |-> prediction.label,
       confidence |-> prediction.probability,
       temperature |-> weather.temperature, humidity |-> weather.humidity],
      [widget |-> "actions",
       items |-> [i \in DOMAIN prediction.actions |->
                     [priority |-> action_priority(prediction.risk_level, i),
                      action |-> prediction.actions[i]]]]>>
    \o (IF needs_resources(prediction.risk_level)
        THEN <<[widget |-> "resources", entry |-> find_resources(city)]>>
        ELSE <<>>)
    \o <<[widget |-> "weather", temperature |-> weather.temperature,
          humidity |-> weather.humidity, wind_speed |-> weather.wind_speed,
          rainfall_1h |-> weather.rainfall_1h, pressure |-> weather.pressure,
          description |-> weather.description],
         [widget |-> "features", features |-> feats,
          probabilities |-> prediction.all_probabilities]>>

(***************************************************************************)
(* main() of src/app.py (lines 358-570), one Streamlit script run at a     *)
(* time.  A script run starts with fresh locals; only the cache of         *)
(* load_model (st.cache_resource) outlives it.                             *)
(***************************************************************************)
\* how many script runs a behaviour holds
MaxRuns == 2

\* what the user may have typed as the API key and as the city
ApiKeys == {"", "0123abcd"}
Cities == {<<>>, <<"M", "u", "m", "b", "a", "i">>, <<"N", "e", "w", " ", "D", "e", "l", "h", "i">>, <<"P", "u", "n", "e">>, <<"D", "e", "l", "h", "i", "-", "M", "u", "m", "b", "a", "i">>}

\* what the provider may answer to the dashboard's request
MainOutcomes ==
    {o \in ProviderOutcomes :
        \/ o.kind = "Timeout"
        \/ /\ o.kind = "response"
           /\ o.decodes
           /\ \/ o.status_code = 404 /\ o.json = ErrorPayload
              \/ /\ o.status_code = 200
                 /\ o.json \in FullPayloads
                      \cup {With(p, "weather", <<>>) : p \in FullPayloads}
                      \cup {Drop(p, "name") : p \in FullPayloads}}

\* the artifacts flood_model_trainer.py may have written
AppArtifacts ==
    [model : {m \in Classifiers : m.proba_cuts = m.cuts}, scaler : ScalersOf["flood"]]

\* the draws of the dashboard's transform_to_features
AppDraws == CornerDraws("flood")

MainInit ==
    /\ pc = "idle"
    /\ runs = 0
    /\ \E a \in AppArtifacts, present \in SUBSET {AppModelFile, AppScalerFile} :
         files = [f \in present |-> IF f = AppModelFile THEN a.model ELSE a.scaler]
    /\ cache = None
    /\ ui = None
    /\ calls = <<>>
    /\ shown = <<>>
    /\ weather_data = None /\ now_month = None /\ disaster_type = "flood"
    /\ rng = None /\ features = None
    /\ model = None /\ scaler = None /\ lang = "en" /\ result = None
    /\ failed_fetches = 0 /\ tr_table = None
    /\ impl = "app" /\ provider = None /\ outbound = 0

\* the user changes a widget: Streamlit runs the script from the top
Rerun ==
    /\ pc = "idle"
    /\ runs < MaxRuns
    /\ runs' = runs + 1
    /\ ui' \in [api_key : ApiKeys, city : Cities, predict_button : BOOLEAN]
    /\ provider' \in MainOutcomes
    /\ pc' = "check_key"
    /\ UNCHANGED <<weather_data, now_month, disaster_type, rng, features, model,
                   scaler, lang, tr_table, result, impl, outbound, files, cache, calls,
                   shown, failed_fetches>>

\* a script runner that never gets over an uncaught exception
run_is_over_unless_crashed(p) == p \in {"done", "stopped"}

\* main() returned, st.stop() was called, or an exception escaped main()
run_is_over(p) == p \in {"done", "stopped", "crashed"}

\* the script run is over (main() returned, st.stop() or an uncaught
\* exception): its locals are gone, the page stays until the next run
EndRun ==
    /\ run_is_over(pc)
    /\ ui' = None /\ provider' = None
    /\ calls' = <<>> /\ shown' = <<>>
    /\ weather_data' = None /\ now_month' = None /\ rng' = None
    /\ features' = None /\ model' = None /\ scaler' = None /\ result' = None
    /\ pc' = "idle"
    /\ UNCHANGED <<disaster_type, lang, tr_table, impl, outbound, files, cache, runs, failed_fetches>>

\* lines 407-409: without an API key the script stops
CheckApiKey ==
    /\ pc = "check_key"
    /\ IF ui.api_key = ""
       THEN /\ shown' = Append(shown, [widget |-> "info", text |-> "Enter your API key"])
            /\ pc' = "stopped"
       ELSE /\ shown' = shown
            /\ pc' = "load_model"
    /\ UNCHANGED <<weather_data, now_month, disaster_type, rng, features, model,
                   scaler, lang, tr_table, result, fetchVars, files, cache, ui, calls, runs, failed_fetches>>

\* lines 65-74: joblib.load of the two files; FileNotFoundError ends in st.stop()
load_model ==
    IF AppModelFile \in DOMAIN files /\ AppScalerFile \in DOMAIN files
    THEN Returned([model |-> files[AppModelFile], scaler |-> files[AppScalerFile]])
    ELSE Raised("FileNotFoundError")

\* line 412, through st.cache_resource
LoadModel ==
    /\ pc = "load_model"
    /\ IF cache # None
       THEN /\ model' = cache.model /\ scaler' = cache.scaler
            /\ UNCHANGED <<cache, shown>>
            /\ pc' = "button"
       ELSE IF load_model.raised = NoException
       THEN /\ model' = load_model.value.model /\ scaler' = load_model.value.scaler
            /\ cache' = load_model.value
            /\ shown' = shown
            /\ pc' = "button"
       ELSE /\ shown' = Append(shown, [widget |-> "error", text |-> "Model files not found!"])
            /\ UNCHANGED <<model, scaler, cache>>
            /\ pc' = "stopped"
    /\ UNCHANGED <<weather_data, now_month, disaster_type, rng, features,
                   lang, tr_table, result, fetchVars, files, ui, calls, runs, failed_fetches>>

\* lines 432-435
HandleButton ==
    /\ pc = "button"
    /\ IF ~ui.predict_button
       THEN shown' = shown /\ pc' = "done"
       ELSE IF ui.city = <<>>
       THEN /\ shown' = Append(shown, [widget |-> "warning", text |-> "Please enter a city name"])
            /\ pc' = "done"
       ELSE shown' = shown /\ pc' = "fetch"
    /\ UNCHANGED <<weather_data, now_month, disaster_type, rng, features, model,
                   scaler, lang, tr_table, result, fetchVars, files, cache, ui, calls, runs, failed_fetches>>

\* line 438: weather = get_weather_data(city, api_key); an exception that
\* escapes it ends the script run
Fetch ==
    /\ pc = "fetch"
    /\ calls' = Append(calls, "get_weather_data")
    /\ outbound' = outbound + requests_made(impl, provider)
    /\ LET got == get_weather_data(impl, provider)
       IN  IF got.raised = NoException
           THEN /\ weather_data' = got.value /\ shown' = shown /\ pc' = "branch"
                /\ failed_fetches' = failed_fetches + (IF got.value = None THEN 1 ELSE 0)
           ELSE /\ weather_data' = weather_data
                /\ shown' = Append(shown, [widget |-> "exception", text |-> got.raised])
                /\ failed_fetches' = failed_fetches + 1
                /\ pc' = "crashed"
    /\ UNCHANGED <<now_month, disaster_type, rng, features, model, scaler, lang,
                   tr_table, result, impl, provider, files, cache, ui, runs>>

\* a branch that never takes the failure arm
fetch_failed_never(weather) == FALSE

\* line 440: if not weather
fetch_failed(weather) == weather = None

\* lines 440-442
Branch ==
    /\ pc = "branch"
    /\ IF fetch_failed(weather_data)
       THEN /\ shown' = Append(shown, [widget |-> "error", text |-> "Could not fetch weather data"])
            /\ pc' = "done"
       ELSE shown' = shown /\ pc' = "transform"
    /\ UNCHANGED <<weather_data, now_month, disaster_type, rng, features, model,
                   scaler, lang, tr_table, result, fetchVars, files, cache, ui, calls, runs, failed_fetches>>

\* line 444: features = transform_to_features(weather)
Transform ==
    /\ pc = "transform"
    /\ calls' = Append(calls, "transform_to_features")
    /\ \E d \in AppDraws, m \in Months :
         /\ rng' = d
         /\ now_month' = m
         /\ features' = app_transform_to_features(weather_data, d, m)
    /\ pc' = "predict"
    /\ UNCHANGED <<weather_data, disaster_type, model, scaler, lang, tr_table, result,
                   fetchVars, files, cache, ui, shown, runs, failed_fetches>>

\* line 447: prediction = predict_flood_risk(features, model, scaler)
Predict ==
    /\ pc = "predict"
    /\ calls' = Append(calls, "predict_flood_risk")
    /\ LET got == predict_flood_risk(features, model, scaler)
       IN  IF got.raised = NoException
           THEN result' = got.value /\ shown' = shown /\ pc' = "display"
           ELSE /\ result' = result
                /\ shown' = Append(shown, [widget |-> "exception", text |-> got.raised])
                /\ pc' = "crashed"
    /\ UNCHANGED <<weather_data, now_month, disaster_type, rng, features, model,
                   scaler, lang, tr_table, fetchVars, files, cache, ui, runs, failed_fetches>>

\* lines 449-559
Display ==
    /\ pc = "display"
    /\ shown' = shown \o render_prediction(ui.city, weather_data, features, result)
    /\ pc' = "done"
    /\ UNCHANGED <<weather_data, now_month, disaster_type, rng, features, model,
                   scaler, lang, tr_table, result, fetchVars, files, cache, ui, calls, runs, failed_fetches>>

MainNext ==
    \/ Rerun \/ CheckApiKey \/ LoadModel \/ HandleButton
    \/ Fetch \/ Branch \/ Transform \/ Predict \/ Display \/ EndRun

SpecMain == MainInit /\ [][MainNext]_vars

\* the steps of a script run that has started.  Each of them returns: the
\* one blocking call is requests.get(..., timeout=5) (app.py line 101), the
\* rest is straight-line code
ScriptStep ==
    \/ CheckApiKey \/ LoadModel \/ HandleButton
    \/ Fetch \/ Branch \/ Transform \/ Predict \/ Display \/ EndRun

\* main() with script runs that go on until they end
SpecMainFair == SpecMain /\ WF_vars(ScriptStep)

(***************************************************************************)
(* Properties of main()                                                    *)
(***************************************************************************)
IsPrefix(a, b) == Len(a) <= Len(b) /\ SubSeq(b, 1, Len(a)) = a

\* the order in which a script run calls the pipeline
PipelineOrder == <<"get_weather_data", "transform_to_features", "predict_flood_risk">>

\* C8: in every run of the request pipeline of main(), when the weather
\* fetch returns the failure value neither the synthesizer nor the classifier
\* is called and no risk assessment is produced; a synthesizer call comes
\* after a successful fetch of the same run and a classifier call after a
\* synthesizer call.
C8_NoAssessmentWithoutWeather ==
    /\ IsPrefix(calls, PipelineOrder)
    /\ pc \in {"transform", "predict", "display"} => weather_data # None
    /\ Len(calls) >= 2 => weather_data # None
    /\ (Len(calls) >= 1 /\ weather_data = None) =>
         /\ calls = <<"get_weather_data">>
         /\ features = None
         /\ result = None
         /\ \A i \in DOMAIN shown : shown[i].widget \notin {"alert", "actions", "features"}

\* C8's case: a script run whose fetch returned None has ended
C8_Witness ==
    /\ pc = "done"
    /\ calls = <<"get_weather_data">>
    /\ provider.kind = "response"
    /\ provider.status_code = 404
    /\ weather_data = None
    /\ shown = <<[widget |-> "error", text |-> "Could not fetch weather data"]>>

\* what a script run finds when it starts: no locals of an earlier run, and
\* in the cache nothing but what load_model returns for the files
CarriedOverIsClean ==
    pc = "idle" =>
        /\ weather_data = None /\ features = None /\ result = None
        /\ model = None /\ scaler = None /\ rng = None /\ now_month = None
        /\ calls = <<>> /\ shown = <<>>
        /\ \/ cache = None
           \/ load_model.raised = NoException /\ cache = load_model.value

\* the assessment of a script run is that of its own request: of the
\* provider's answer, the draws, the month and the artifact files
ResultIsOfThisRequest ==
    (pc \in {"display", "done"} /\ result # None) =>
        /\ get_weather_data(impl, provider).raised = NoException
        /\ weather_data = get_weather_data(impl, provider).value
        /\ features = app_transform_to_features(weather_data, rng, now_month)
        /\ load_model.raised = NoException
        /\ result = predict_flood_risk(features, load_model.value.model,
                                       load_model.value.scaler).value

\* the fetch of the running script run has failed
FetchFailedInRun ==
    /\ pc \in {"branch", "crashed", "done"}
    /\ calls = <<"get_weather_data">>
    /\ weather_data = None

\* C11: a script run whose weather fetch fails leaves no trace in later runs:
\* every run starts without anything an earlier run computed, its result is a
\* function of its own request alone, and a run whose fetch failed always
\* ends, so that the next one can start.
C11_FailedRequestLeavesNoTrace ==
    /\ [](CarriedOverIsClean /\ ResultIsOfThisRequest)
    /\ (FetchFailedInRun ~> pc = "idle")

\* C11's case: an assessment shown by a run that follows a failed one
C11_Witness ==
    /\ pc = "done"
    /\ failed_fetches >= 1
    /\ runs = 2
    /\ result # None
    /\ calls = PipelineOrder

(***************************************************************************)
(* Loading the artifacts (predictor.py load_models)                        *)
(***************************************************************************)
\* lines 21-25: the classifier file and the scaler file of each hazard type
paths ==
    [flood |-> <<"flood_model.pkl", "scaler.pkl">>,
     cyclone |-> <<"cyclone_model.pkl", "cyclone_scaler.pkl">>,
     heatwave |-> <<"heatwave_model.pkl", "heatwave_scaler.pkl">>]

\* the files the trainers leave in ml_model/saved_models
SavedFiles == UNION {Range(paths[h]) : h \in Hazards}

\* a loader that takes each file that exists, whether or not its partner does
load_models_each_file(fs) ==
    Returned(<<[h \in {x \in Hazards : paths[x][1] \in DOMAIN fs} |->
                  fs[paths[h][1]]],
               [h \in {x \in Hazards : paths[x][2] \in DOMAIN fs} |->
                  fs[paths[h][2]]]>>)

\* lines 27-35: a hazard type is loaded when both its files exist, and is
\* left out otherwise; the pair (models, scalers) is returned
load_models(fs) ==
    LET found == {h \in Hazards :
                     paths[h][1] \in DOMAIN fs /\ paths[h][2] \in DOMAIN fs}
    IN  Returned(<<[h \in found |-> fs[paths[h][1]]],
                   [h \in found |-> fs[paths[h][2]]]>>)

\* the process starts with any part of the saved files in place
LoadInit ==
    /\ pc = "startup"
    /\ \E present \in SUBSET SavedFiles, m \in Classifiers, st \in ScalerStats :
         files = [f \in present |->
                    LET h == CHOOSE x \in Hazards : f \in Range(paths[x])
                    IN  IF f = paths[h][1] THEN m
                        ELSE [feature_names_in |-> training_columns(h),
                              mean |-> st.mean, scale |-> st.scale]]
    /\ model = None /\ scaler = None /\ result = None
    /\ weather_data = None /\ now_month = None /\ disaster_type = None
    /\ rng = None /\ features = None /\ lang = None
    /\ impl = None /\ provider = None /\ outbound = 0
    /\ cache = None /\ ui = None /\ calls = <<>> /\ shown = <<>> /\ runs = 0
    /\ failed_fetches = 0 /\ tr_table = None

\* models, scalers = load_models() at startup: an exception ends the
\* process, a normal return lets it go on to serve requests
LoadModels ==
    /\ pc = "startup"
    /\ LET r == load_models(files) IN
         /\ result' = r
         /\ IF r.raised = NoException
            THEN /\ model' = r.value[1]
                 /\ scaler' = r.value[2]
                 /\ pc' = "serving"
            ELSE /\ pc' = "exited"
                 /\ UNCHANGED <<model, scaler>>
    /\ UNCHANGED <<weather_data, now_month, disaster_type, rng, features, lang, tr_table,
                   fetchVars, mainVars>>

LoadNext == LoadModels

SpecLoad == LoadInit /\ [][LoadNext]_vars

\* C9: when the classifier file or the scaler file of a hazard type is
\* absent, loading fails fatally and the process does not reach the state in
\* which it serves requests.
C9_MissingArtifactIsFatal ==
    pc = "serving" => SavedFiles \subseteq DOMAIN files

(***************************************************************************)
(* Two runs of the pipeline side by side.  Here pc, now_month, features,   *)
(* lang and result hold one value per run; weather_data, rng, model,       *)
(* scaler and disaster_type are what the two runs have in common.          *)
(***************************************************************************)
TwinRuns == {1, 2}

\* datetime.now() at the time of a run
Clocks == [month : Months, day : {1, 15}]

\* a synthesizer that reads the day of the month
current_month_is_day(now) == now.day

\* predictor.py line 56: datetime.now().month
current_month(now) == now.month

TwinInit ==
    /\ pc = <<"input", "input">>
    /\ disaster_type \in Hazards
    /\ weather_data \in ScenarioObservations
    /\ rng \in CornerDraws(disaster_type)
    /\ model \in Classifiers
    /\ scaler \in ScalersOf[disaster_type]
    /\ now_month \in [TwinRuns -> Clocks]
    /\ lang \in {<<"en", "en">>, <<"en", "hi">>}
    /\ tr_table = TRANSLATIONS
    /\ features = <<None, None>>
    /\ result = <<None, None>>
    /\ impl = None /\ provider = None /\ outbound = 0
    /\ NoDashboard

\* run i synthesizes its feature vector
TwinTransform(i) ==
    /\ pc[i] = "input"
    /\ features' = [features EXCEPT ![i] =
                      transform_to_features(disaster_type, weather_data, rng,
                                            current_month(now_month[i]))]
    /\ pc' = [pc EXCEPT ![i] = "synthesized"]
    /\ UNCHANGED <<weather_data, now_month, disaster_type, rng, predictVars,
                   fetchVars, mainVars>>

\* run i classifies its feature vector
TwinPredict(i) ==
    /\ pc[i] = "synthesized"
    /\ result' = [result EXCEPT ![i] =
                    predict_risk(features[i], model, scaler, disaster_type,
                                 tr_table, lang[i])]
    /\ LET after == args_after_predict_risk(features[i], model, scaler, tr_table)
       IN  /\ features' = [features EXCEPT ![i] = after.features]
           /\ model' = after.model
           /\ scaler' = after.scaler
           /\ tr_table' = after.translations
    /\ pc' = [pc EXCEPT ![i] = "returned"]
    /\ UNCHANGED <<weather_data, now_month, disaster_type, rng, lang,
                   fetchVars, mainVars>>

TwinNext == \E i \in TwinRuns : TwinTransform(i) \/ TwinPredict(i)

SpecTwin == TwinInit /\ [][TwinNext]_vars

\* both runs have returned an assessment
TwinDone ==
    /\ pc = <<"returned", "returned">>
    /\ \A i \in TwinRuns : result[i].raised = NoException

TwinAgree ==
    /\ features[1] = features[2]
    /\ result[1].value.risk_level = result[2].value.risk_level

\* C10 as stated: two runs with the same model, scaler, weather observation
\* and random draws produce the same feature vector and the same risk_level,
\* whatever else differs between them, the wall-clock time included.
C10_SameInputsSameAssessment == TwinDone => TwinAgree

\* C10, amended: two runs with the same model, scaler, weather observation
\* and random draws that happen in the same calendar month produce the same
\* feature vector and the same risk_level, whatever else differs between
\* them (the day of the month, the display language).
C10_SameMonthSameAssessment ==
    (TwinDone /\ now_month[1].month = now_month[2].month) => TwinAgree

\* C10's case: two completed runs in one month, on different days and in
\* different languages
C10_Witness ==
    /\ TwinDone
    /\ now_month[1].month = now_month[2].month
    /\ now_month[1].day # now_month[2].day
    /\ lang[1] # lang[2]
    /\ result[1].value.label # result[2].value.label
    /\ TwinAgree

\* C12: once the artifacts are loaded no pipeline operation changes them:
\* over every interleaving of two requests that share them, no step changes
\* the model, the scaler or the translation table, and predict_risk leaves
\* the features mapping of its request as it was given.
C12_ArtifactsNeverChange ==
    [][/\ model' = model
       /\ scaler' = scaler
       /\ tr_table' = tr_table
       /\ \A i \in TwinRuns :
            pc[i] = "synthesized" => features'[i] = features[i]]_vars

\* C12's case: both requests have been through predict_risk, one in each
\* language, and the shared arguments are still what the runs started with
C12_Witness ==
    /\ TwinDone
    /\ lang[1] # lang[2]
    /\ now_month[1] # now_month[2]
    /\ tr_table = TRANSLATIONS
    /\ model \in Classifiers
    /\ scaler \in ScalersOf[disaster_type]
    /\ \A i \in TwinRuns : DOMAIN features[i] = Range(feature_names[disaster_type])

(***************************************************************************)
(* Calls of predict_risk and predict_flood_risk outside their contract:    *)
(* an artifact with labels other than 0..3, a vector that lacks a field or *)
(* holds a value outside its range, a hazard type that is not one of the   *)
(* three                                                                   *)
(***************************************************************************)
\* classifiers fit on labels that are not 0, 1, 2, 3: integer labels, and
\* float labels (in thousandths)
RogueClassifiers ==
    [col : {1}, cuts : {<<U(30), U(100), U(300)>>},
     proba_cuts : {<<U(30), U(100), U(300)>>},
     classes : {<<0, 1, 2, 4>>, <<-1, 0, 1, 2>>}]
      \cup [col : {1}, cuts : {<<U(30), U(100), U(300)>>},
            proba_cuts : {<<U(30), U(100), U(300)>>},
            classes : {<<0, U(1), U(2), 3500>>, <<-500, U(1), U(2), U(3)>>},
            dtype : {"float64"}]

\* the label is one of the four risk classes
IsRiskClass(m, y) ==
    IF label_dtype(m) = "float64" THEN y \in {0, U(1), U(2), U(3)}
    ELSE y \in 0..3

\* the documented ranges of the fields the three schemas share or that the
\* design document bounds
InDocumentedRange(f) ==
    /\ "humidity" \in DOMAIN f => (f.humidity >= 0 /\ f.humidity <= U(100))
    /\ "soil_moisture" \in DOMAIN f =>
           (f.soil_moisture >= 0 /\ f.soil_moisture <= U(100))
    /\ "river_level" \in DOMAIN f => f.river_level >= 0
    /\ "month" \in DOMAIN f => f.month \in 1..12

\* a vector with one field pushed out of its range
OutOfRange(f) ==
    {With(f, "humidity", U(105)), With(f, "month", 13), With(f, "month", 0)}
      \cup (IF "river_level" \in DOMAIN f
            THEN {With(f, "river_level", -U(1))} ELSE {})

\* what a careless caller may hand to predict_risk for hazard h: a vector of
\* the synthesizer, the same without one field, the same out of range
MisuseVectors(h) ==
    UNION {{f} \cup {Drop(f, k) : k \in DOMAIN f} \cup OutOfRange(f) :
              f \in FeatureVectorsOf[h]}

MisuseVectorsOf == [h \in Hazards |-> MisuseVectors(h)]

MisuseInit ==
    /\ pc = "call"
    /\ \E h \in Hazards :
         /\ features \in MisuseVectorsOf[h]
         /\ scaler \in ScalersOf[h]
         /\ disaster_type \in {h, "earthquake"}
    /\ model \in {m \in Classifiers : m.proba_cuts = m.cuts} \cup RogueClassifiers
    /\ lang \in {"en", "hi"}
    /\ tr_table = TRANSLATIONS
    /\ result = None
    /\ weather_data = None /\ now_month = None /\ rng = None
    /\ impl = None /\ provider = None /\ outbound = 0
    /\ NoDashboard

\* one call of app.py's predict_flood_risk(features, model, scaler)
PredictFloodRisk ==
    /\ pc = "call"
    /\ result' = predict_flood_risk(features, model, scaler)
    /\ calls' = artifact_calls(features, "flood")
    /\ pc' = "returned_app"
    /\ UNCHANGED <<weather_data, now_month, disaster_type, rng, features,
                   model, scaler, lang, tr_table, fetchVars, files, cache, ui,
                   shown, runs, failed_fetches>>

MisuseNext == PredictRisk \/ PredictFloodRisk

SpecMisuse == MisuseInit /\ [][MisuseNext]_vars

\* the label the classifier returned in the call that has ended
ReturnedLabel ==
    LET cols == IF pc = "returned_app" THEN app_feature_names
                ELSE feature_names[disaster_type]
    IN  model_predict(model, scaler_transform(scaler, reorder(features, cols)))

\* the call that has ended got as far as model.predict
ClassifierWasCalled ==
    /\ pc \in {"returned", "returned_app"}
    /\ Len(calls) >= 2

\* C15: when the classifier returns a class outside {0,1,2,3}, predict_risk
\* and predict_flood_risk raise an error and return no bundle.
C15_UnknownClassRaises ==
    (ClassifierWasCalled /\ ~IsRiskClass(model, ReturnedLabel)) =>
        result.raised # NoException

\* C16: when the feature vector lacks a field of the column order of the
\* given hazard type, predict_risk raises an error before the scaler or the
\* model is called, and returns no bundle.
C16_MissingFieldRaisesFirst ==
    (/\ pc = "returned"
     /\ disaster_type \in Hazards
     /\ ~(Range(feature_names[disaster_type]) \subseteq DOMAIN features)) =>
        /\ result.raised # NoException
        /\ result.value = None
        /\ calls = <<>>

\* C16's case: a flood vector without humidity was turned down
C16_Witness ==
    /\ pc = "returned"
    /\ disaster_type = "flood"
    /\ DOMAIN features = Range(feature_names["flood"]) \ {"humidity"}
    /\ result = Raised("KeyError")
    /\ calls = <<>>

\* C17: when a field of the feature vector is outside its documented range
\* (humidity above 100, a negative river_level, month outside 1..12),
\* predict_risk raises an error and returns no bundle.
C17_OutOfRangeRaises ==
    (/\ pc = "returned"
     /\ disaster_type \in Hazards
     /\ Range(feature_names[disaster_type]) \subseteq DOMAIN features
     /\ ~InDocumentedRange(features)) =>
        result.raised # NoException

\* C18: for every input record, one whose observed humidity is below 0 or
\* above 100 included, the humidity and the soil_moisture of the vector a
\* synthesizer returns lie in [0,100].
C18_HumidityAndSoilMoistureClamped ==
    pc = "synthesized" =>
        /\ features.humidity >= 0 /\ features.humidity <= U(100)
        /\ "soil_moisture" \in DOMAIN features =>
               (features.soil_moisture >= 0 /\ features.soil_moisture <= U(100))

(***************************************************************************)
(* A request from the record to the bundle: the caller names a hazard      *)
(* type, runs its synthesizer, and hands the vector to predict_risk with a *)
(* hazard-type argument of its own                                         *)
(***************************************************************************)
SchemaInit ==
    /\ pc = "input"
    /\ weather_data \in Observations
    /\ now_month \in Months
    /\ model \in {m \in Classifiers : m.proba_cuts = m.cuts /\ m.col = 1}
    /\ lang = "en"
    /\ tr_table = TRANSLATIONS
    /\ disaster_type = None /\ rng = None /\ features = None
    /\ scaler = None /\ result = None
    /\ impl = None /\ provider = None /\ outbound = 0
    /\ NoDashboard

\* the synthesizer of hazard type h runs; calls keeps which one it was
SchemaSynthesize(h) ==
    /\ pc = "input"
    /\ \E d \in CornerDraws(h) :
         /\ rng' = d
         /\ features' = transform_to_features(h, weather_data, d, now_month)
    /\ calls' = <<h>>
    /\ pc' = "synthesized"
    /\ UNCHANGED <<weather_data, now_month, disaster_type, predictVars,
                   fetchVars, files, cache, ui, shown, runs, failed_fetches>>

\* predict_risk is called with hazard-type argument dtype and the scaler
\* saved for it (for a type nobody trained, the synthesizer's)
SchemaPredict(dtype) ==
    /\ pc = "synthesized"
    /\ disaster_type' = dtype
    /\ scaler' \in ScalersOf[IF dtype \in Hazards THEN dtype ELSE calls[1]]
    /\ result' = predict_risk(features, model, scaler', dtype, tr_table, lang)
    /\ pc' = "returned"
    /\ UNCHANGED <<weather_data, now_month, rng, features, model, lang,
                   tr_table, fetchVars, mainVars>>

SchemaNext ==
    \/ \E h \in Hazards : SchemaSynthesize(h)
    \/ \E dtype \in Hazards \cup {"earthquake"} : SchemaPredict(dtype)

SpecSchema == SchemaInit /\ [][SchemaNext]_vars

\* C19: the feature schema of a request is chosen by the hazard-type
\* argument alone: the synthesizer of a hazard type returns the same field
\* names whatever the weather record holds; predict_risk reorders to the
\* column list of its disaster_type whatever the vector holds (a vector of
\* another hazard type is turned down, not re-read under its own schema);
\* and a disaster_type other than flood, cyclone, heatwave raises an error.
C19_SchemaIsChosenByHazardType ==
    /\ pc \in {"synthesized", "returned"} =>
           DOMAIN features = Range(feature_names[calls[1]])
    /\ (pc = "returned" /\ disaster_type \notin Hazards) =>
           result.raised # NoException
    /\ (pc = "returned" /\ disaster_type \in Hazards) =>
           IF disaster_type # calls[1] THEN result = Raised("KeyError")
           ELSE /\ result.raised = NoException
                /\ result.value.risk_level =
                     int(model, model_predict(model,
                             scaler_transform(scaler,
                                 reorder(features, feature_names[disaster_type]))))

\* C19's case: a rainy record, asked about as a heatwave request, gets the
\* heatwave fields and a heatwave assessment
C19_Witness ==
    /\ pc = "returned"
    /\ weather_data.rainfall_1h > 0
    /\ calls = <<"heatwave">>
    /\ disaster_type = "heatwave"
    /\ DOMAIN features = Range(feature_names["heatwave"])
    /\ result.raised = NoException

\* the record has no rain and is not both humid and under low pressure
DryRecord(w) ==
    /\ w.rainfall_1h = 0
    /\ ~(w.humidity > U(85) /\ w.pressure < U(1005))

\* C20: in the flood synthesizer (predictor.py's, and app.py's on the same
\* record, draws and month), when rainfall_1h is 0 and it is not the case
\* that humidity > 85 and pressure < 1005, the synthesized rainfall is
\* exactly 0 for every draw and river_level lies in [4,7].
C20_DryRecordHasNoRain ==
    (pc = "synthesized" /\ disaster_type = "flood" /\ DryRecord(weather_data)) =>
        LET app == app_transform_to_features(weather_data, rng, now_month)
        IN  /\ features.rainfall = 0
            /\ features.river_level >= U(4) /\ features.river_level <= U(7)
            /\ app.rainfall = 0
            /\ app.river_level >= U(4) /\ app.river_level <= U(7)

\* C20's case: scenario A's humidity and pressure, no rain, and the draw
\* that puts the river at the top of its range
C20_Witness ==
    /\ pc = "synthesized"
    /\ disaster_type = "flood"
    /\ weather_data.rainfall_1h = 0
    /\ weather_data.humidity = U(60)
    /\ weather_data.pressure = U(1015)
    /\ features.rainfall = 0
    /\ features.river_level = U(7)

\* the product rainfall_1h * multiplier of the flood synthesizer's run
RainProduct == Mul(weather_data.rainfall_1h, rng.mult)

\* a flood synthesizer has run on a record whose product is at least 1
WetFloodRun ==
    /\ pc = "synthesized"
    /\ disaster_type = "flood"
    /\ RainProduct >= U(1)

\* C21 as stated: whenever rainfall_1h times the drawn multiplier is at least
\* 1, the synthesized rainfall lies between 8 and 15 times rainfall_1h, and
\* for rainfall_1h = 25 it is above 150 for every draw.
C21_RainfallWithin8To15Times ==
    WetFloodRun =>
        /\ features.rainfall >= 8 * weather_data.rainfall_1h
        /\ features.rainfall <= 15 * weather_data.rainfall_1h
        /\ weather_data.rainfall_1h = U(25) => features.rainfall > U(150)

\* C21, amended: whenever rainfall_1h times the drawn multiplier is at least
\* 1, that product lies between 8 and 15 times rainfall_1h and the
\* synthesized rainfall is its rounding to 2 decimals, so it is less than
\* 0.005 outside that interval at most; for rainfall_1h = 25 the
\* synthesized rainfall is above 150 for every draw.  The same holds of
\* app.py's transform_to_features.
C21_RainfallIsRoundedProduct ==
    WetFloodRun =>
        LET app == app_transform_to_features(weather_data, rng, now_month)
        IN  /\ RainProduct >= 8 * weather_data.rainfall_1h
            /\ RainProduct <= 15 * weather_data.rainfall_1h
            /\ features.rainfall = round2(RainProduct)
            /\ features.rainfall > 8 * weather_data.rainfall_1h - 5
            /\ features.rainfall < 15 * weather_data.rainfall_1h + 5
            /\ weather_data.rainfall_1h = U(25) => features.rainfall > U(150)
            /\ app.rainfall = features.rainfall

\* C21's case: a drizzle of 0.128 mm drawn with multiplier 8 gives 1.02, a
\* little under 8 times 0.128
C21_Witness ==
    /\ WetFloodRun
    /\ weather_data.rainfall_1h = 128
    /\ rng.mult = U(8)
    /\ features.rainfall = 1020

\* C22: in every language of the translation table the action list of a
\* higher risk class is never shorter than that of a lower class, the lists
\* of the two languages have the same length for each class, and so the
\* list of a returned bundle is at least as long as the list of every lower
\* class in every language; app.py's risk_info lists grow the same way.
C22_ActionListsGrowWithClass ==
    pc \in {"call", "returned", "translated"} =>
        /\ \A lg \in DOMAIN tr_table : \A c \in 0..2 :
               Len(tr_table[lg].risk_actions[c])
                   <= Len(tr_table[lg].risk_actions[c + 1])
        /\ \A c \in 0..3 :
               Len(tr_table["en"].risk_actions[c])
                   = Len(tr_table["hi"].risk_actions[c])
        /\ \A c \in 0..2 :
               Len(risk_info[c].actions) <= Len(risk_info[c + 1].actions)
        /\ (pc = "returned" /\ result.raised = NoException) =>
               \A lg \in DOMAIN tr_table : \A c \in 0..result.value.risk_level :
                   Len(result.value.actions) >= Len(tr_table[lg].risk_actions[c])

\* C22's case: a Warning bundle in English, five actions against the four
\* of Safe
C22_Witness ==
    /\ pc = "returned"
    /\ result.raised = NoException
    /\ lang = "en"
    /\ result.value.risk_level = 1
    /\ Len(result.value.actions) = 5
    /\ Len(tr_table["hi"].risk_actions[0]) = 4

\* the emergency-resource widgets the script run has rendered
ResourcesShown == {i \in DOMAIN shown : shown[i].widget = "resources"}

\* C23: in main() the emergency-resource table is consulted only for a
\* request whose risk_level is >= 2; for such a request the entry shown is
\* that of the first table key, in table order, that is a substring of the
\* lower-cased city name, and when no key is a substring no entry is shown.
C23_ResourcesForHighRiskOnly ==
    /\ ResourcesShown # {} => (result # None /\ result.risk_level >= 2)
    /\ (pc = "done" /\ result # None) =>
          IF result.risk_level < 2 THEN ResourcesShown = {}
          ELSE /\ Cardinality(ResourcesShown) = 1
               /\ \A i \in ResourcesShown :
                    LET city_lower == lower(ui.city)
                        entry == shown[i].entry
                    IN  IF \A k \in DOMAIN EMERGENCY_RESOURCES :
                              ~is_substring(EMERGENCY_RESOURCES[k].key, city_lower)
                        THEN entry = None
                        ELSE \E k \in DOMAIN EMERGENCY_RESOURCES :
                               /\ entry = EMERGENCY_RESOURCES[k]
                               /\ is_substring(EMERGENCY_RESOURCES[k].key, city_lower)
                               /\ \A j \in 1..(k - 1) :
                                    ~is_substring(EMERGENCY_RESOURCES[j].key, city_lower)

\* C23's case: a high-risk request for "Delhi-Mumbai" is shown Mumbai's
\* entry, the first key of the table, though delhi comes first in the name
C23_Witness ==
    /\ pc = "done"
    /\ result # None
    /\ result.risk_level >= 2
    /\ ui.city = <<"D", "e", "l", "h", "i", "-", "M", "u", "m", "b", "a", "i">>
    /\ \E i \in ResourcesShown : shown[i].entry = EMERGENCY_RESOURCES[1]

\* C24: in every synthesizer rounding to 2 decimals is applied only to the
\* values placed in the returned vector: river_level, soil_moisture,
\* heat_index, temp_anomaly and the fallback tests on rainfall are computed
\* from unrounded intermediates, and each returned non-integer field is the
\* 2-decimal rounding of its unrounded value.
C24_RoundedOnlyOnReturn ==
    pc = "synthesized" =>
        LET w == weather_data
            product == (w.rainfall_1h * rng.mult) \div 1000
        IN  CASE disaster_type = "flood" ->
                   LET rainfall_estimate ==
                           IF product < 1000 /\ w.humidity > 85000
                                /\ w.pressure < 1005000
                           THEN rng.fallback ELSE product
                       river_level ==
                           max(0, 5000 + (rainfall_estimate \div 100) + rng.river_u)
                       soil_moisture ==
                           max(0, min(100000, ((w.humidity * 400) \div 1000)
                                      + (rainfall_estimate \div 5) + rng.soil_n))
                   IN  /\ features.rainfall = round2(rainfall_estimate)
                       /\ features.river_level = round2(river_level)
                       /\ features.humidity = round2(w.humidity)
                       /\ features.wind_speed = round2(w.wind_speed)
                       /\ features.temperature = round2(w.temperature)
                       /\ features.soil_moisture = round2(soil_moisture)
                       /\ features.elevation = round2(rng.elevation)
                       /\ features.drainage_density = round2(rng.drainage_density)
                       /\ features.land_use_index = round2(rng.land_use_index)
              [] disaster_type = "cyclone" ->
                   LET rainfall == IF product < 1000 /\ w.pressure < 1000000
                                   THEN rng.fallback ELSE product
                   IN  /\ features.wind_speed = round2((w.wind_speed * 1500) \div 1000)
                       /\ features.pressure = round2(w.pressure)
                       /\ features.sea_surface_temp = round2(w.temperature + rng.sst_u)
                       /\ features.rainfall = round2(rainfall)
                       /\ features.distance_to_coast = round2(rng.distance_to_coast)
                       /\ features.system_movement_speed =
                            round2(rng.system_movement_speed)
                       /\ features.humidity = round2(w.humidity)
                       /\ features.ocean_heat_content = round2(rng.ocean_heat_content)
                       /\ features.elevation = round2(rng.elevation)
              [] disaster_type = "heatwave" ->
                   LET max_temp == w.temperature + rng.temp_u
                       heat_index ==
                           IF max_temp >= 27000 /\ w.humidity >= 40000
                           THEN max_temp + (((w.humidity - 40000) * 100) \div 1000)
                           ELSE max_temp
                       cloud_cover == IF "cloud_cover" \in DOMAIN w
                                      THEN w.cloud_cover ELSE rng.cloud_cover
                   IN  /\ features.max_temperature = round2(max_temp)
                       /\ features.heat_index = round2(heat_index)
                       /\ features.humidity = round2(w.humidity)
                       /\ features.wind_speed = round2(w.wind_speed)
                       /\ features.soil_moisture = round2(rng.soil_moisture)
                       /\ features.cloud_cover = round2(cloud_cover)
                       /\ features.urban_heat_island_idx =
                            round2(rng.urban_heat_island_idx)
                       /\ features.temp_anomaly = round2(max_temp - 30000)

\* C24's case: in humid air under low pressure a product of 0.996, which
\* rounds to 1.00, is still below 1 where the fallback is tested, so the
\* fallback draw is returned
C24_Witness ==
    /\ pc = "synthesized"
    /\ disaster_type = "flood"
    /\ RainProduct = 996
    /\ round2(RainProduct) = U(1)
    /\ weather_data.humidity = U(97)
    /\ weather_data.pressure = U(995)
    /\ features.rainfall = rng.fallback

\* a flood synthesizer has run on a record whose product is below 1
DryFloodRun ==
    /\ pc = "synthesized"
    /\ disaster_type = "flood"
    /\ RainProduct < U(1)

\* line 47: the air is humid and the pressure low
HumidLowPressure ==
    weather_data.humidity > U(85) /\ weather_data.pressure < U(1005)

\* C25 as stated: when rainfall_1h times the drawn multiplier is below 1 and
\* humidity > 85 and pressure < 1005, the synthesized rainfall is replaced
\* by a value in [20,50]; when the product is below 1 and that condition
\* does not hold, the rainfall keeps the product's value, below 1.
C25_DryRainfallKeepsProduct ==
    DryFloodRun =>
        IF HumidLowPressure
        THEN features.rainfall >= U(20) /\ features.rainfall <= U(50)
        ELSE features.rainfall = RainProduct /\ features.rainfall < U(1)

\* C25, amended: when the product is below 1 and humidity > 85 and pressure
\* < 1005, the synthesized rainfall is the fallback draw, in [20,50]; when
\* the product is below 1 and that condition does not hold, the synthesized
\* rainfall is the product rounded to 2 decimals, which is at most 1.00 and
\* is 1.00 for a product of 0.995 or more.  The same holds of app.py's
\* transform_to_features.
C25_DryRainfallIsRoundedProduct ==
    DryFloodRun =>
        LET app == app_transform_to_features(weather_data, rng, now_month)
        IN  /\ IF HumidLowPressure
               THEN /\ features.rainfall = round2(rng.fallback)
                    /\ features.rainfall >= U(20) /\ features.rainfall <= U(50)
               ELSE /\ features.rainfall = round2(RainProduct)
                    /\ features.rainfall <= U(1)
                    /\ RainProduct > 995 => features.rainfall = U(1)
                    /\ RainProduct < 995 => features.rainfall < U(1)
            /\ app.rainfall = features.rainfall

\* C25's case: in air of 60 % humidity a drizzle of 0.12 mm drawn with
\* multiplier 8.3 gives a product of 0.996 and a synthesized rainfall of 1.00
C25_Witness ==
    /\ DryFloodRun
    /\ ~HumidLowPressure
    /\ weather_data.rainfall_1h = 120
    /\ rng.mult = 8300
    /\ RainProduct = 996
    /\ features.rainfall = U(1)

\* the heatwave synthesizer has run
HeatwaveRun == pc = "synthesized" /\ disaster_type = "heatwave"

\* line 119: the maximum temperature before the rounding of the return
MaxTemp == weather_data.temperature + rng.temp_u

C27_HotDaysFollowUnroundedMaximum ==
    HeatwaveRun =>
        /\ MaxTemp <= U(35) => features.consecutive_hot_days = 0
        /\ MaxTemp > U(35) => features.consecutive_hot_days \in 1..4
        /\ features.consecutive_hot_days \in 0..4

\* C27's case: 33 degrees and a draw of 2.004 give 35.004, returned as
\* 35.00, and the count of hot days is 4
C27_Witness ==
    /\ HeatwaveRun
    /\ MaxTemp = 35004
    /\ features.max_temperature = U(35)
    /\ features.consecutive_hot_days = 4

\* C28: for every combination of present and absent artifact files the two
\* mappings load_models returns have the same key set: a hazard type has a
\* model entry if and only if it has a scaler entry, it has both exactly
\* when both of its files exist, and a hazard with only one of its two
\* files appears in neither mapping.
C28_ModelsAndScalersShareKeys ==
    pc = "serving" =>
        /\ DOMAIN model = DOMAIN scaler
        /\ DOMAIN model \subseteq {"flood", "cyclone", "heatwave"}
        /\ \A h \in {"flood", "cyclone", "heatwave"} :
             LET m_file == paths[h][1]
                 s_file == paths[h][2]
             IN  /\ h \in DOMAIN model <=>
                       (m_file \in DOMAIN files /\ s_file \in DOMAIN files)
                 /\ h \in DOMAIN model =>
                       /\ model[h] = files[m_file]
                       /\ scaler[h] = files[s_file]

\* C28's case: flood_model.pkl is there without scaler.pkl, the cyclone
\* files are both there: flood is in neither mapping, cyclone in both
C28_Witness ==
    /\ pc = "serving"
    /\ "flood_model.pkl" \in DOMAIN files
    /\ "scaler.pkl" \notin DOMAIN files
    /\ "flood" \notin DOMAIN model
    /\ "flood" \notin DOMAIN scaler
    /\ "cyclone" \in DOMAIN model
    /\ "cyclone" \in DOMAIN scaler

\* the implementation of get_weather_data that was not called
OtherImpl == CHOOSE im \in Impls : im # impl

\* C29: for every provider outcome (network error, any HTTP status, any
\* payload) the get_weather_data of app.py and that of
\* backend/weather_api.py give the same result: both return the same record
\* or both return None, and neither raises where the other returns.
C29_FetchersAgree ==
    pc \in {"returned", "raised"} =>
        result = get_weather_data(OtherImpl, provider)

\* C30: in the flood synthesizer, for every record with rainfall_1h >= 0 and
\* every draw, the unclamped river level 5.0 + rainfall/100 + u, u in
\* [-1,2], is at least 4, so the clamp max(0, river_level) never changes the
\* value and the returned river_level is at least 4.
C30_RiverLevelAtLeast4 ==
    (pc = "synthesized" /\ disaster_type = "flood"
       /\ weather_data.rainfall_1h >= 0) =>
        LET rainfall == IF RainProduct < U(1) /\ HumidLowPressure
                        THEN rng.fallback ELSE RainProduct
            unclamped == U(5) + (rainfall \div 100) + rng.river_u
            app == app_transform_to_features(weather_data, rng, now_month)
        IN  /\ rng.river_u >= -U(1) /\ rng.river_u <= U(2)
            /\ rainfall >= 0
            /\ unclamped >= U(4)
            /\ max(0, unclamped) = unclamped
            /\ features.river_level = round2(unclamped)
            /\ features.river_level >= U(4)
            /\ app.river_level = features.river_level

\* C30's case: no rain at all and the lowest draw, u = -1: the river level
\* is exactly 4 and the clamp leaves it there
C30_Witness ==
    /\ pc = "synthesized"
    /\ disaster_type = "flood"
    /\ weather_data.rainfall_1h = 0
    /\ ~HumidLowPressure
    /\ rng.river_u = -U(1)
    /\ features.river_level = U(4)

====
